---------------------------- MODULE Spec2Model ----------------------------
(***************************************************************************)
(* Model of the basalt-server execution pipeline: the WebSocket RunTest /  *)
(* Submit handlers with their per-(connection, problem) guards, the        *)
(* /run-tests background task, the submission repository queries, and the  *)
(* competition clock.                                                      *)
(***************************************************************************)
EXTENDS Integers, Sequences, FiniteSets, TLC

(***************************************************************************)
(* Bounds of the model.                                                    *)
(***************************************************************************)
NumHandlers == 2        \* WebSocket message handlers that can be in flight
NumTasks == 1           \* spawned /run-tests tasks that can be in flight
MaxRequests == 2        \* messages / requests accepted in one behaviour
MaxTime == 1            \* ticks of the database clock (CURRENT_TIMESTAMP)
MaxClock == 4           \* ticks of the monotonic clock (Instant::now())
MaxCalls == 3           \* calls made on the ClockInfo in one behaviour
MaxLimit == 2           \* largest time limit asked of time_left, in clock ticks
MaxUtc == 2             \* ticks of the wall clock seen by the team registry (Utc::now())
MaxTeamCalls == 3       \* calls made on the TeamManagement in one behaviour
NumWaiters == 2         \* wait_for_connection calls that can be in flight
NumConnectors == 2      \* add_connection calls that can be in flight
MaxConnects == 2        \* add_connection calls (and so channels) in one behaviour
MaxBroadcasts == 1      \* broadcast calls in one behaviour
MaxWall == 3            \* ticks of the system clock seen by the sessions (SystemTime::now())
MaxLookups == 2         \* get_user_from_session calls made outside handshakes
MaxPacketTests == 3     \* most tests of a problem whose reply is built
MaxReplies == 1         \* replies built in one behaviour
NumJobs == 2            \* jobs ending in broadcast_team_update that can be in flight
MaxJobs == 3            \* such jobs started in one behaviour
MaxHandshakes == 2      \* WebSocket handshakes in one behaviour
NumProblems == 1        \* config.packet.problems.len()
NumTests == 2           \* problem.tests.len()
MaxSubmissions == 1     \* largest config.max_submissions tried
MaxEvents == 2          \* events dispatched in one behaviour
NumScripts == 2         \* config.integrations.event_handlers.len()
NumWebhooks == 2        \* config.integrations.webhooks.len()
MaxSockets == 2         \* sockets the streaming user opens in one behaviour
MaxHandled == 2         \* messages handled in the study of the registry locks

Handlers == 1..NumHandlers
Tasks == 1..NumTasks
Users == {"team1", "team2"}
Problems == 0..(NumProblems - 1)
\* a client may name any index; NumProblems is the first one out of range
ProblemInputs == 0..NumProblems
Languages == {"known", "unknown"}
TestIndexes == 0..(NumTests - 1)
TestOutputs == {"Pass", "IncorrectOutput"}
\* values the external scoring function may return
ScoreValues == {1, 3}
None == -1

VARIABLES
    submission_history, \* rows of the submission_history table
    test_results,       \* rows of the test_results table
    test_runs,          \* rows of the test_runs table, counted per (user, problem)
    db_now,             \* CURRENT_TIMESTAMP of the store
    active_tests,       \* AppState.active_tests
    active_submissions, \* AppState.active_submissions
    nreq,               \* requests received so far
    max_submissions,    \* config.max_submissions (0 stands for None)
    made,               \* rows persisted by Submit handlers per key since the key was inserted
    hs,                 \* each WebSocket handler: position, message, locals, reply, exit
    task,               \* each /run-tests task: position, request, locals, exit
    clk_now,            \* Instant::now()
    start_time,         \* ClockInfo.start_time
    pause_time,         \* ClockInfo.pause_time (None when running)
    total_time_paused,  \* ClockInfo.total_time_paused
    clock_log,          \* the calls made on the clock and what they returned
    time_out,           \* the last current_time() / time_left(limit) and what it returned
    teams,              \* TeamManagement.teams
    utc_now,            \* Utc::now()
    team_call,          \* the last call made on the team registry and what it returned
    active_connections, \* WebSocketManager.active_connections: the channel of each key (0: none)
    waiting_connections,\* WebSocketManager.waiting_connections: the waiters of each user
    chans,              \* each mpsc channel: unused, open or closed, and what was sent on it
    nconn,              \* channels created so far
    waiter,             \* each wait_for_connection call: position, user, outcome
    connector,          \* each add_connection call: position, key, channel
    bcast,              \* broadcasts made so far, what the last one returned and warned of
    sessions,           \* the rows of the sessions table
    issued,             \* the session ids generated so far
    wall_now,           \* SystemTime::now(), in seconds
    slog,               \* the last session lookup, what it returned, the ids found expired
    hshake,             \* the last WebSocket handshake and how it was answered
    sent,               \* the last reply sent to a client, with what it was built from
    old,                \* each handler of the earlier WebSocketRecv::handle: position, locals
    old_n,              \* RunTest messages the earlier handlers have taken
    upd,                \* each job ending in broadcast_team_update: position, team, reads
    upd_n,              \* jobs started so far
    last_update,        \* the last TeamUpdate broadcast for each team
    patch_out,          \* what the last clock PATCH request broadcast and dispatched
    hook_n,             \* events dispatched so far
    hook_ret,           \* what each dispatch() returned to its caller
    script_q,           \* the channel of the script handler: events not yet received
    webhook_q,          \* the channel of the webhook handler: events not yet received
    evals,              \* for each event, the scripts evaluated for it and the result collected
    posts,              \* for each event, the webhooks it was posted to
    runloop,            \* the loop of the run-tests task that runs the tests and records them
    produced,           \* the results handle.wait_next() has handed out, in order
    result_chan,        \* the items buffered in the result channel
    result_rx,          \* whether the receiving half of the result channel is alive
    forwarder,          \* the task that forwards results to the user's socket
    test_msgs,          \* the TestResults messages sent, each with its results
    user_conn,          \* the channel registered for the user (0: none)
    open_conns,         \* the socket channels whose receiving half is alive
    conn_ids,           \* socket channels created so far
    torn,               \* the sockets whose handler has run its teardown
    sub_states,         \* the last response of GET submissions-state
    lk_sock,            \* each socket: none, open, closed (handle_socket returned) or gone
    lk_reg,             \* the keys present in active_connections
    lk_pc,              \* each user's message handler: where it is in run_test
    lk_remove,          \* each handler's to_remove list of the broadcast it is in
    lk_n                \* messages handled so far

dbVars == <<submission_history, test_results, test_runs>>
guardVars == <<active_tests, active_submissions>>
execVars == <<dbVars, db_now, guardVars, nreq, max_submissions, made, hs, task>>
clockVars == <<clk_now, start_time, pause_time, total_time_paused, clock_log, time_out>>
teamVars == <<teams, utc_now, team_call>>
wsVars == <<active_connections, waiting_connections, chans, nconn, waiter, connector, bcast>>
sessVars == <<sessions, issued, wall_now, slog, hshake>>
replyVars == <<sent>>
oldVars == <<old, old_n>>
updVars == <<upd, upd_n, last_update>>
patchVars == <<patch_out>>
hookVars == <<hook_n, hook_ret, script_q, webhook_q, evals, posts>>
streamVars ==
    <<runloop, produced, result_chan, result_rx, forwarder, test_msgs,
      user_conn, open_conns, conn_ids, torn>>
stateVars == <<sub_states>>
lockVars == <<lk_sock, lk_reg, lk_pc, lk_remove, lk_n>>
\* the parts added after the clock requests
moreVars == <<hookVars, streamVars, stateVars, lockVars>>
vars ==
    <<execVars, clockVars, teamVars, wsVars, sessVars,
      replyVars, oldVars, updVars, patchVars, moreVars>>

\* what the actions of one part of the server leave alone: the other parts
notExecVars ==
    <<clockVars, teamVars, wsVars, sessVars, replyVars,
      oldVars, updVars, patchVars, moreVars>>
notClockVars ==
    <<execVars, teamVars, wsVars, sessVars, replyVars,
      oldVars, updVars, patchVars, moreVars>>
notTeamVars ==
    <<execVars, clockVars, wsVars, sessVars, replyVars,
      oldVars, updVars, patchVars, moreVars>>
notWsVars ==
    <<execVars, clockVars, teamVars, sessVars, replyVars,
      oldVars, updVars, patchVars, moreVars>>
notSessVars ==
    <<execVars, clockVars, teamVars, wsVars, replyVars,
      oldVars, updVars, patchVars, moreVars>>
notReplyVars ==
    <<execVars, clockVars, teamVars, wsVars, sessVars,
      oldVars, updVars, patchVars, moreVars>>
\* the earlier handler shares active_tests with the pipeline
notOldVars ==
    <<dbVars, db_now, active_submissions, nreq, max_submissions, made, hs, task,
      clockVars, teamVars, wsVars, sessVars, replyVars, updVars, patchVars, moreVars>>
\* the event sinks share nothing with the rest
notHookVars ==
    <<execVars, clockVars, teamVars, wsVars, sessVars, replyVars, oldVars, updVars,
      patchVars, streamVars, stateVars, lockVars>>
notLockVars ==
    <<execVars, clockVars, teamVars, wsVars, sessVars, replyVars, oldVars, updVars,
      patchVars, hookVars, streamVars, stateVars>>
notStateVars ==
    <<execVars, clockVars, teamVars, wsVars, sessVars, replyVars, oldVars, updVars,
      patchVars, hookVars, streamVars, lockVars>>
\* the streaming of test results shares nothing with the rest
notStreamVars ==
    <<execVars, clockVars, teamVars, wsVars, sessVars, replyVars, oldVars, updVars,
      patchVars, hookVars, stateVars, lockVars>>
\* the jobs that broadcast share the store with the pipeline
notUpdVars ==
    <<test_results, guardVars, nreq, max_submissions, made, hs, task,
      clockVars, teamVars, wsVars, sessVars, replyVars, oldVars, patchVars, moreVars>>

NoReq == [kind |-> "none", who |-> "none", problem |-> 0, language |-> "none"]
NoTxn == [open |-> FALSE, rows |-> {}, tests |-> {}]

(***************************************************************************)
(* Repository queries (repositories/submissions.rs).                       *)
(***************************************************************************)
\* SELECT COUNT(*) ... WHERE submitter = ? AND question_index = ?
count_previous_submissions(db, submitter, question_index) ==
    Cardinality({r \in db : r.submitter = submitter /\ r.question_index = question_index})

\* SELECT COUNT(submitter) ... WHERE question_index = ? AND success AND time < CURRENT_TIMESTAMP
count_other_submissions(db, question_index, current) ==
    Cardinality({r \in db : r.question_index = question_index /\ r.success /\ r.time < current})

\* the sub-select: question_index, MAX(time) AS latest ... GROUP BY question_index
LatestTimes(db, user_id) ==
    {<<q, t>> \in {<<r.question_index, r.time>> : r \in {x \in db : x.submitter = user_id}} :
        \A r \in db : (r.submitter = user_id /\ r.question_index = q) => r.time <= t}

\* SELECT h.* ... JOIN (...) t ON h.question_index = t.question_index AND h.time = t.latest
\* WHERE h.submitter = ?
get_latest_submissions(db, user_id) ==
    {h \in db : h.submitter = user_id /\ <<h.question_index, h.time>> \in LatestTimes(db, user_id)}

RECURSIVE SumScores(_)
SumScores(rows) ==
    IF rows = {} THEN 0
    ELSE LET r == CHOOSE x \in rows : TRUE
         IN r.score + SumScores(rows \ {r})

\* SELECT SUM(h.score) over the same join; NULL becomes 0
get_user_score(db, user_id) == SumScores(get_latest_submissions(db, user_id))


(***************************************************************************)
(* Rows and their updates.                                                 *)
(***************************************************************************)
\* an insert that stores every row as successful
NewRowSucceeded(id, submitter, question_index, state, score, success) ==
    [id |-> id, submitter |-> submitter, question_index |-> question_index,
     time |-> db_now, state |-> state, score |-> score, success |-> TRUE]

\* INSERT INTO submission_history: time is the store's CURRENT_TIMESTAMP
NewRow(id, submitter, question_index, state, score, success) ==
    [id |-> id, submitter |-> submitter, question_index |-> question_index,
     time |-> db_now, state |-> state, score |-> score, success |-> success]

\* an insert that stores every test row under index 0
NewTestRowAtZero(submission, test_index, result) ==
    [submission |-> submission, test_index |-> 0, result |-> result]

\* INSERT INTO test_results (submission, test_index, result, ...)
NewTestRow(submission, test_index, result) ==
    [submission |-> submission, test_index |-> test_index, result |-> result]

\* an update of the state column without the WHERE clause
SetStateEverywhere(db, id, state) ==
    {[r EXCEPT !.state = state] : r \in db}

\* UPDATE submission_history SET state = ? WHERE id = ?
SetState(db, id, state) ==
    {IF r.id = id THEN [r EXCEPT !.state = state] ELSE r : r \in db}

\* UPDATE submission_history SET state = ?, score = ?, success = ? WHERE id = ?
SetFinished(db, id, score, success) ==
    {IF r.id = id THEN [r EXCEPT !.state = "Finished", !.score = score, !.success = success]
     ELSE r : r \in db}

(***************************************************************************)
(* Decisions of the WebSocket handlers (services/ws/mod.rs).               *)
(***************************************************************************)
Key(r) == <<r.who, r.problem>>

NoResults == [kind |-> "none", vec |-> [i \in TestIndexes |-> "none"]]
RunOutputs ==
    {[kind |-> k, vec |-> [i \in TestIndexes |-> "none"]] : k \in {"CompileSpawnFail", "CompileFail"}}
    \cup {[kind |-> "RunSuccess", vec |-> v] : v \in [TestIndexes -> TestOutputs]}

\* runner.run() may also return Err, which the handlers propagate with `?`
RunnerError == [kind |-> "Error", vec |-> [i \in TestIndexes |-> "none"]]

\* an insert that reports success whether or not the key was present
TryInsertAlways(set, key) == TRUE

\* DashSet::insert returns true iff the key was not present
TryInsert(set, key) == key \notin set

\* a ceiling that lets one more attempt through
CeilingStrict(n) == max_submissions # 0 /\ n > max_submissions

\* max_attempts.is_some_and(|max| attempts >= max)
CeilingReached(n) == max_submissions # 0 /\ n >= max_submissions

\* a release written only on the success path
ReleaseOnOk(set, key, how) == IF how = "ok" THEN set \ {key} ELSE set

\* scopeguard::defer! { state.active_*.remove(&key); } runs however the scope is left
ReleaseGuard(set, key, how) == set \ {key}

\* vec.iter().all(|x| matches!(x, TestOutput::Pass))
AllPass(vec) == \A i \in TestIndexes : vec[i] = "Pass"

\* the state of a row the Submit path inserts: Failed after a compile failure,
\* otherwise already Finished
InsertedState(compile_fail) == IF compile_fail THEN "Failed" ELSE "Finished"

\* a score taken from the scoring function whatever the outcome
ScoreAlways(success, s) == s

\* let score = if success { state.config.score(..)? } else { 0. };
SubmissionScore(success, s) == IF success THEN s ELSE 0

\* a dropped transaction whose writes stay
TxnLeaked(visible, buffered) == visible \cup buffered

\* a transaction dropped without commit() rolls back: nothing it wrote becomes visible
TxnDropped(visible, buffered) == visible

(***************************************************************************)
(* Initial state: AppState::new, an empty store, ClockInfo::default.       *)
(***************************************************************************)
\* a handler outside handle(): pc, the message, the locals of run_submission /
\* run_test, the last reply sent and how handle() returned
IdleHandler ==
    [pc |-> "idle", req |-> NoReq, attempts |-> 0, results |-> NoResults, txn |-> NoTxn,
     history |-> 0, reply |-> "none", exit |-> "none"]

\* a task slot before tokio::spawn: pc, the request body, submission.id, the
\* number of results seen, success, and how the task ended
IdleTask ==
    [pc |-> "idle", req |-> NoReq, submission |-> 0, next |-> 0, success |-> TRUE,
     exit |-> "none"]

\* ConnectionKind: User { user } or Leaderboard { id, addr }
UserKind(u) == [kind |-> "User", id |-> u]
ConnectionKinds ==
    {UserKind(u) : u \in Users} \cup {[kind |-> "Leaderboard", id |-> "board1"]}
Channels == 1..MaxConnects
Waiters == 1..NumWaiters
Connectors == 1..NumConnectors

\* a wait_for_connection not yet called: position, user, the value its oneshot
\* holds (0: none), the result (0: None, else the handle's channel), the return
\* taken, and whether an add_connection for the user completed meanwhile
IdleWaiter ==
    [pc |-> "idle", user |-> "none", delivered |-> 0, result |-> 0, via |-> "none",
     connected |-> FALSE]

\* an add_connection not yet called: position, key, the channel it created
IdleConnector == [pc |-> "idle", who |-> UserKind("none"), chan |-> 0]

\* cfg.accounts.competitors, and the names a caller may pass
Competitors == {"team1", "team2"}
TeamNames == Competitors \cup {"stranger"}

\* TeamInfo::default()
SessionIds == {"sid1", "sid2"}
\* a session id no create_session has returned
UnknownId == "sid0"
\* the Sec-WebSocket-Protocol header of a handshake: a session id, or none
Headers == SessionIds \cup {UnknownId, "absent"}
\* the lifetime create_session gives a session: 30 days, scaled to clock ticks
SessionLifetime == 2
NoLookup == [n |-> 0, session_id |-> "none", ret |-> "none", user |-> "none", dead |-> {}]
NoHandshake == [n |-> 0, header |-> "none", ret |-> "none", who |-> UserKind("none")]
LeaderboardKind == [kind |-> "Leaderboard", id |-> "board1"]

NoReply ==
    [n |-> 0, kind |-> "none", results |-> [kind |-> "none", tests |-> <<>>],
     percent |-> 0, problem_tests |-> <<>>, vec |-> <<>>]

\* an earlier handler outside handle(): position, key, whether its insert found
\* the key present, whether it started the runner, the last message sent, how
\* handle() returned
IdleOld ==
    [pc |-> "idle", key |-> <<"none", 0>>, present |-> FALSE, ran |-> FALSE,
     reply |-> "none", exit |-> "none"]

Jobs == 1..NumJobs
\* vec![QuestionState::NotAttempted; problems.len()]
NotAttempted == [p \in Problems |-> "NotAttempted"]
\* a job not started: position, kind, team, problem, and the new_states and
\* new_score it has read, each with the store it was read from
IdleJob ==
    [pc |-> "idle", kind |-> "none", team |-> "none", problem |-> 0,
     new_states |-> NotAttempted, states_of |-> {}, new_score |-> 0, score_of |-> {}]
\* no TeamUpdate has been broadcast for the team
NoUpdate ==
    [n |-> 0, new_score |-> 0, new_states |-> NotAttempted, states_of |-> {},
     score_of |-> {}]

\* no clock PATCH request has been served
NoPatch ==
    [n |-> 0, is_paused |-> FALSE, broadcast |-> "none", dispatched |-> "none",
     time_left_in_seconds |-> 0]

Events == 1..MaxEvents
\* config.integrations.event_handlers, in the order of the list
Scripts == 1..NumScripts
\* config.integrations.webhooks
Webhooks == 1..NumWebhooks
\* an event no evaluation thread has taken: its state, the scripts evaluate()
\* was called on, and those for which it returned Err
NoEval == [state |-> "none", attempted |-> {}, failed |-> {}]
\* an event the webhook loop has not taken: the URLs posted to, those that failed
NoPost == [done |-> FALSE, attempted |-> {}, failed |-> {}]

\* no TestResult in hand
NoResult == [index |-> None, out |-> "none"]
\* the run loop of the run-tests task before tokio::spawn: position, results the
\* runner has handed out, the result in hand, the state of the submission row,
\* how the task ended
IdleRun == [pc |-> "idle", next |-> 0, cur |-> NoResult, row |-> "none", exit |-> "none"]
\* the forwarder before tokio::spawn: position, the item received, the handle
\* wait_for_connection returned (0: none), how the forwarder ended
IdleForwarder == [pc |-> "idle", r |-> NoResult, websocket_sender |-> 0, exit |-> "none"]

\* a u32 is kept as two 16-bit halves, value = hi * HalfWord + lo
HalfWord == 65536
U32(n) == [some |-> TRUE, hi |-> n \div HalfWord, lo |-> n % HalfWord]
\* Option<u32>::None
NoAttempts == [some |-> FALSE, hi |-> 0, lo |-> 0]
\* x - a on u32 in a build without overflow checks: the result modulo 2^32
\* (a and x stay far below HalfWord here)
WrappingSub(x, a) ==
    IF x >= a THEN U32(x - a)
    ELSE [some |-> TRUE, hi |-> HalfWord - 1, lo |-> HalfWord - (a - x)]
\* no submissions-state response yet
NoStates == [exit |-> "none", user |-> "none", remaining |-> [p \in Problems |-> NoAttempts]]

\* the keys of the registry in the study of its locks, and the shard of the
\* DashMap each key hashes to (two keys share a shard, one has its own)
LockConns == {"team1", "team2", "board1"}
ShardOf(c) == IF c = "board1" THEN 2 ELSE 1

DefaultTeamInfo == [last_seen |-> None, checked_in |-> FALSE, disconnected |-> FALSE]

\* no current_time() has been asked yet
NoTime == [asked |-> FALSE, paused |-> FALSE, duration |-> 0, limit |-> 0, left |-> 0]

Init ==
    /\ submission_history = {}
    /\ test_results = {}
    /\ test_runs = [k \in Users \X Problems |-> 0]
    /\ db_now = 0
    /\ active_tests = {}
    /\ active_submissions = {}
    /\ nreq = 0
    /\ max_submissions \in 0..MaxSubmissions
    /\ made = [k \in Users \X ProblemInputs |-> 0]
    /\ hs = [h \in Handlers |-> IdleHandler]
    /\ task = [t \in Tasks |-> IdleTask]
    /\ clk_now = 0
    /\ start_time = 0
    /\ pause_time = 0
    /\ total_time_paused = 0
    /\ clock_log = <<>>
    /\ time_out = NoTime
    /\ teams = [t \in Competitors |-> DefaultTeamInfo]
    /\ utc_now = 0
    /\ team_call = [n |-> 0, op |-> "none", name |-> "none", ret |-> FALSE]
    /\ active_connections = [k \in ConnectionKinds |-> 0]
    /\ waiting_connections = [u \in Users |-> <<>>]
    /\ chans = [c \in Channels |-> [state |-> "unused", queue |-> <<>>]]
    /\ nconn = 0
    /\ waiter = [w \in Waiters |-> IdleWaiter]
    /\ connector = [c \in Connectors |-> IdleConnector]
    /\ bcast = [n |-> 0, ret |-> "none", warned |-> {}]
    /\ sessions = {}
    /\ issued = {}
    /\ wall_now = 0
    /\ slog = NoLookup
    /\ hshake = NoHandshake
    /\ sent = NoReply
    /\ old = [h \in Handlers |-> IdleOld]
    /\ old_n = 0
    /\ upd = [j \in Jobs |-> IdleJob]
    /\ upd_n = 0
    /\ last_update = [u \in Users |-> NoUpdate]
    /\ patch_out = NoPatch
    /\ hook_n = 0
    /\ hook_ret = [e \in Events |-> "none"]
    /\ script_q = <<>>
    /\ webhook_q = <<>>
    /\ evals = [e \in Events |-> NoEval]
    /\ posts = [e \in Events |-> NoPost]
    /\ runloop = IdleRun
    /\ produced = <<>>
    /\ result_chan = <<>>
    /\ result_rx = FALSE
    /\ forwarder = IdleForwarder
    /\ test_msgs = <<>>
    /\ user_conn = 0
    /\ open_conns = {}
    /\ conn_ids = 0
    /\ torn = {}
    /\ sub_states = NoStates
    /\ lk_sock = [c \in LockConns |-> "none"]
    /\ lk_reg = {}
    /\ lk_pc = [u \in Users |-> "idle"]
    /\ lk_remove = [u \in Users |-> {}]
    /\ lk_n = 0

\* the store's clock advances
Tick ==
    /\ db_now < MaxTime
    /\ db_now' = db_now + 1
    /\ UNCHANGED <<dbVars, guardVars, nreq, max_submissions, notExecVars, made, hs, task>>

\* SubmissionId::new(): an id no row, open transaction or running task holds
UsedIds ==
    {r.id : r \in submission_history}
    \cup {hs[h].history : h \in Handlers} \cup {task[t].submission : t \in Tasks}
next_id == CHOOSE i \in 1..(MaxRequests + 1) :
               /\ i \notin UsedIds
               /\ \A j \in 1..(i - 1) : j \in UsedIds

(***************************************************************************)
(* WebSocketRecv::run_submission (services/ws/mod.rs).                     *)
(***************************************************************************)
NewReq(kind, who, p, lang) ==
    [kind |-> kind, who |-> who, problem |-> p, language |-> lang]

\* a handler that takes a new message: the locals of the last one are gone
Fresh(kind, who, p, lang) ==
    [IdleHandler EXCEPT !.req = NewReq(kind, who, p, lang)]

\* handle() returns after sending msg, if any: how is "ok", "panic" or the
\* context of the error it propagates; the locals are dropped, and the message
\* stays known as the one the reply answers
Left(r, how, msg) ==
    [IdleHandler EXCEPT !.req = r.req, !.reply = msg, !.exit = how]

\* a Submit message arrives: language lookup, count_previous_submissions,
\* the max_submissions check
SubmitStart(h, who, p, lang, dbok) ==
    /\ hs[h].pc = "idle"
    /\ nreq < MaxRequests
    /\ nreq' = nreq + 1
    /\ UNCHANGED <<max_submissions, notExecVars>>
    /\ LET r == Fresh("Submit", who, p, lang)
           n == count_previous_submissions(submission_history, who, p)
       IN hs' = [hs EXCEPT ![h] =
              IF lang = "unknown" THEN Left(r, "ok", "Unknown language")
              ELSE IF ~dbok THEN Left(r, "getting previous submissions", "none")
              ELSE IF CeilingReached(n) THEN Left(r, "ok", "Only N submissions are allowed")
              ELSE [r EXCEPT !.pc = "s_counted", !.attempts = n]]
    /\ UNCHANGED <<dbVars, db_now, guardVars, made, task>>

\* active_submissions.insert(key), then the defer, then problems[problem_index]
SubmitGuard(h) ==
    /\ hs[h].pc = "s_counted"
    /\ LET key == Key(hs[h].req)
       IN IF ~TryInsert(active_submissions, key)
          THEN /\ hs' = [hs EXCEPT ![h] = Left(@, "ok", "Submission is already running")]
               /\ UNCHANGED <<active_submissions, made>>
          ELSE IF hs[h].req.problem \notin Problems
          THEN \* index out of bounds: the panic unwinds through the defer
               /\ hs' = [hs EXCEPT ![h] = Left(@, "panic", "none")]
               /\ active_submissions' =
                      ReleaseGuard(active_submissions \cup {key}, key, "panic")
               /\ UNCHANGED made
          ELSE /\ hs' = [hs EXCEPT ![h].pc = "s_running"]
               /\ active_submissions' = active_submissions \cup {key}
               /\ made' = IF key \in active_submissions THEN made
                          ELSE [made EXCEPT ![key] = 0]
    /\ UNCHANGED <<dbVars, db_now, active_tests, nreq, max_submissions, notExecVars, task>>

\* runner.run().await? returns
SubmitRunnerReturn(h, out) ==
    /\ hs[h].pc = "s_running"
    /\ IF out = RunnerError
       THEN /\ hs' = [hs EXCEPT ![h] = Left(@, "running", "none")]
            /\ active_submissions' =
                   ReleaseGuard(active_submissions, Key(hs[h].req), "running")
       ELSE /\ hs' = [hs EXCEPT ![h].pc = "s_result", ![h].results = out]
            /\ UNCHANGED active_submissions
    /\ UNCHANGED <<dbVars, db_now, active_tests, nreq, max_submissions, notExecVars, made, task>>

\* RunOutput::CompileSpawnFail / CompileFail: one row, outside any transaction
SubmitPersistFailed(h, dbok) ==
    /\ hs[h].pc = "s_result"
    /\ hs[h].results.kind \in {"CompileSpawnFail", "CompileFail"}
    /\ IF dbok
       THEN /\ submission_history' = submission_history \cup
                   {NewRow(next_id, hs[h].req.who, hs[h].req.problem,
                           InsertedState(TRUE), 0, FALSE)}
            /\ made' = [made EXCEPT ![Key(hs[h].req)] = @ + 1]
            /\ hs' = [hs EXCEPT ![h].pc = "s_bcast", ![h].history = next_id,
                                ![h].reply = IF hs[h].results.kind = "CompileFail"
                                             THEN "compile_fail" ELSE "internal_error"]
            /\ UNCHANGED active_submissions
       ELSE /\ hs' = [hs EXCEPT ![h] = Left(@, "creating submission history", "none")]
            /\ active_submissions' =
                   ReleaseGuard(active_submissions, Key(hs[h].req),
                                "creating submission history")
            /\ UNCHANGED <<submission_history, made>>
    /\ UNCHANGED <<test_results, test_runs, db_now, active_tests,
                   nreq, max_submissions, notExecVars, task>>

\* RunOutput::RunSuccess: count_other_submissions, begin() and acquire() (both
\* unwrapped), the score, the history row written inside the transaction
SubmitInsertHistory(h, how, s) ==
    /\ hs[h].pc = "s_result"
    /\ hs[h].results.kind = "RunSuccess"
    /\ how \in {"ok", "count_fail", "begin_fail", "score_fail", "insert_fail"}
    /\ LET success == AllPass(hs[h].results.vec)
           score == SubmissionScore(success, s)
           row == NewRow(next_id, hs[h].req.who, hs[h].req.problem,
                         InsertedState(FALSE), score, success)
           end == CASE how = "begin_fail" -> "panic"
                    [] how = "count_fail" -> "getting other submissions"
                    [] how = "score_fail" -> "calculating score"
                    [] OTHER -> "creating submission history"
       IN IF how = "ok"
          THEN /\ hs' = [hs EXCEPT ![h].pc = "s_txn", ![h].history = next_id,
                             ![h].txn = [open |-> TRUE, rows |-> {row}, tests |-> {}]]
               /\ UNCHANGED <<active_submissions, submission_history>>
          ELSE /\ how = "score_fail" => success
               /\ hs' = [hs EXCEPT ![h] =
                      Left(@, end, "none")]
               /\ active_submissions' =
                      ReleaseGuard(active_submissions, Key(hs[h].req), end)
               /\ submission_history' =
                      IF how = "insert_fail"
                      THEN TxnDropped(submission_history, {row})
                      ELSE submission_history
    /\ UNCHANGED <<test_results, test_runs, db_now, active_tests,
                   nreq, max_submissions, notExecVars, made, task>>

\* one create_submission_test_history inside the transaction
SubmitInsertTest(h, dbok) ==
    /\ hs[h].pc = "s_txn"
    /\ LET i == Cardinality(hs[h].txn.tests)
           row == NewTestRow(hs[h].history, i, hs[h].results.vec[i])
       IN /\ i < NumTests
          /\ IF dbok
             THEN /\ hs' = [hs EXCEPT ![h].txn.tests = @ \cup {row}]
                  /\ UNCHANGED <<active_submissions, submission_history, test_results>>
             ELSE /\ hs' = [hs EXCEPT ![h] =
                         Left(@, "creating submission test history", "none")]
                  /\ active_submissions' =
                         ReleaseGuard(active_submissions, Key(hs[h].req),
                                      "creating submission test history")
                  /\ submission_history' =
                         TxnDropped(submission_history, hs[h].txn.rows)
                  /\ test_results' =
                         TxnDropped(test_results, hs[h].txn.tests \cup {row})
    /\ UNCHANGED <<test_runs, db_now, active_tests, nreq, max_submissions, notExecVars, made, task>>

\* txn.commit().await?, then the Submit reply
SubmitCommit(h, dbok) ==
    /\ hs[h].pc = "s_txn"
    /\ Cardinality(hs[h].txn.tests) = NumTests
    /\ IF dbok
       THEN /\ submission_history' = submission_history \cup hs[h].txn.rows
            /\ test_results' = test_results \cup hs[h].txn.tests
            /\ made' = [made EXCEPT ![Key(hs[h].req)] = @ + 1]
            /\ hs' = [hs EXCEPT ![h].pc = "s_bcast", ![h].txn = NoTxn,
                                ![h].reply = "individual"]
            /\ UNCHANGED active_submissions
       ELSE /\ hs' = [hs EXCEPT ![h] = Left(@, "committing transaction", "none")]
            /\ active_submissions' =
                   ReleaseGuard(active_submissions, Key(hs[h].req),
                                "committing transaction")
            /\ submission_history' = TxnDropped(submission_history, hs[h].txn.rows)
            /\ test_results' = TxnDropped(test_results, hs[h].txn.tests)
            /\ UNCHANGED made
    /\ UNCHANGED <<test_runs, db_now, active_tests, nreq, max_submissions, notExecVars, task>>

\* broadcast_team_update after the reply, then Ok(())
SubmitBroadcast(h, dbok) ==
    /\ hs[h].pc = "s_bcast"
    /\ LET end == IF dbok THEN "ok" ELSE "getting user submissions"
       IN /\ hs' = [hs EXCEPT ![h] = Left(@, end, hs[h].reply)]
          /\ active_submissions' =
                 ReleaseGuard(active_submissions, Key(hs[h].req), end)
    /\ UNCHANGED <<dbVars, db_now, active_tests, nreq, max_submissions, notExecVars, made, task>>

(***************************************************************************)
(* WebSocketRecv::run_test (services/ws/mod.rs).                           *)
(***************************************************************************)
\* a RunTest message arrives: language lookup, active_tests.insert(key), the
\* defer, problems[problem_index], and the runner is started
TestStart(h, who, p, lang) ==
    /\ hs[h].pc = "idle"
    /\ nreq < MaxRequests
    /\ nreq' = nreq + 1
    /\ UNCHANGED <<max_submissions, notExecVars>>
    /\ LET key == <<who, p>>
           r == Fresh("RunTest", who, p, lang)
       IN IF lang = "unknown"
          THEN /\ hs' = [hs EXCEPT ![h] = Left(r, "ok", "Unknown language")]
               /\ UNCHANGED active_tests
          ELSE IF ~TryInsert(active_tests, key)
          THEN /\ hs' = [hs EXCEPT ![h] = Left(r, "ok", "Tests are already running")]
               /\ UNCHANGED active_tests
          ELSE IF p \notin Problems
          THEN /\ hs' = [hs EXCEPT ![h] = Left(r, "panic", "none")]
               /\ active_tests' = ReleaseGuard(active_tests \cup {key}, key, "panic")
          ELSE /\ hs' = [hs EXCEPT ![h] = [r EXCEPT !.pc = "t_running"]]
               /\ active_tests' = active_tests \cup {key}
    /\ UNCHANGED <<dbVars, db_now, active_submissions, made, task>>

\* runner.run().await? returns
TestRunnerReturn(h, out) ==
    /\ hs[h].pc = "t_running"
    /\ IF out = RunnerError
       THEN /\ hs' = [hs EXCEPT ![h] = Left(@, "running", "none")]
            /\ active_tests' = ReleaseGuard(active_tests, Key(hs[h].req), "running")
       ELSE /\ hs' = [hs EXCEPT ![h].pc = "t_result", ![h].results = out]
            /\ UNCHANGED active_tests
    /\ UNCHANGED <<dbVars, db_now, active_submissions,
                   nreq, max_submissions, notExecVars, made, task>>

\* add_test, broadcast_team_update, then the TestResults reply
TestRecord(h, how) ==
    /\ hs[h].pc = "t_result"
    /\ how \in {"ok", "add_fail", "broadcast_fail"}
    /\ test_runs' = IF how = "add_fail" THEN test_runs
                    ELSE [test_runs EXCEPT ![Key(hs[h].req)] = @ + 1]
    /\ hs' = [hs EXCEPT ![h] =
           IF how = "ok"
           THEN Left(@, "ok", CASE hs[h].results.kind = "CompileSpawnFail" -> "internal_error"
                                [] hs[h].results.kind = "CompileFail" -> "compile_fail"
                                [] OTHER -> "individual")
           ELSE Left(@, IF how = "add_fail" THEN "adding user test"
                        ELSE "getting user submissions", "none")]
    /\ active_tests' = ReleaseGuard(active_tests, Key(hs[h].req),
                                    CASE how = "ok" -> "ok"
                                      [] how = "add_fail" -> "adding user test"
                                      [] OTHER -> "getting user submissions")
    /\ UNCHANGED <<submission_history, test_results, db_now, active_submissions,
                   nreq, max_submissions, notExecVars, made, task>>

(***************************************************************************)
(* The task spawned by run_tests (services/testing.rs).                    *)
(***************************************************************************)
\* the task returns (or panics); submission.id is kept to name its row
Ended(r, how) == [IdleTask EXCEPT !.pc = "done", !.submission = r.submission, !.exit = how]

\* POST /run-tests: the runner lookup, then tokio::spawn
HttpRunTests(t, who, p, lang) ==
    /\ task[t].pc \in {"idle", "done"}
    /\ nreq < MaxRequests
    /\ nreq' = nreq + 1
    /\ UNCHANGED <<max_submissions, notExecVars>>
    /\ LET r == [IdleTask EXCEPT !.req = NewReq("run-tests", who, p, lang)]
       IN task' = [task EXCEPT ![t] =
              IF lang = "unknown" \/ p \notin Problems
              THEN Ended(r, "bad_request")
              ELSE [r EXCEPT !.pc = "compiling"]]
    /\ UNCHANGED <<dbVars, db_now, guardVars, made, hs>>

\* compile() returns; create_failed_submission_history or create_submission_history
HttpCompiled(t, out, dbok) ==
    /\ task[t].pc = "compiling"
    /\ out \in {"CompileFail", "SpawnError", "Compiled"}
    /\ IF out = "SpawnError" \/ ~dbok
       THEN /\ task' = [task EXCEPT ![t] =
                   Ended(@, IF out = "SpawnError" THEN "spawn_error" ELSE "db_error")]
            /\ UNCHANGED submission_history
       ELSE /\ submission_history' = submission_history \cup
                   {NewRow(next_id, task[t].req.who, task[t].req.problem,
                           IF out = "CompileFail" THEN "Failed" ELSE "Started", 0, FALSE)}
            /\ task' = [task EXCEPT ![t] =
                   IF out = "CompileFail"
                   THEN [Ended(@, "compile_fail") EXCEPT !.submission = next_id]
                   ELSE [@ EXCEPT !.pc = "testing", !.submission = next_id]]
    /\ UNCHANGED <<test_results, test_runs, db_now, guardVars,
                   nreq, max_submissions, notExecVars, made, hs>>

\* handle.wait_next() yields a result (or an error), which is recorded
HttpTestResult(t, r, dbok, failok) ==
    /\ task[t].pc = "testing"
    /\ task[t].next < NumTests
    /\ r \in TestOutputs \cup {"error"}
    /\ IF r = "error"
       THEN \* Err(_) => todo!()
            /\ task' = [task EXCEPT ![t] = Ended(@, "panic")]
            /\ UNCHANGED <<submission_history, test_results>>
       ELSE IF dbok
       THEN /\ test_results' = test_results \cup
                   {NewTestRow(task[t].submission, task[t].next, r)}
            /\ task' = [task EXCEPT ![t].next = @ + 1,
                                    ![t].success = @ /\ r = "Pass"]
            /\ UNCHANGED submission_history
       ELSE \* the insert failed: submission.fail(), which may fail too
            /\ submission_history' =
                   IF failok THEN SetState(submission_history, task[t].submission, "Failed")
                   ELSE submission_history
            /\ task' = [task EXCEPT ![t] =
                   Ended([@ EXCEPT !.success = @ /\ r = "Pass"], "db_error")]
            /\ UNCHANGED test_results
    /\ UNCHANGED <<test_runs, db_now, guardVars, nreq, max_submissions, notExecVars, made, hs>>

\* Ok(None): submission.finish(&state.db, 0.0, success, elapsed)
HttpFinish(t, dbok) ==
    /\ task[t].pc = "testing"
    /\ task[t].next = NumTests
    /\ submission_history' =
           IF dbok
           THEN SetFinished(submission_history, task[t].submission, 0, task[t].success)
           ELSE submission_history
    /\ task' = [task EXCEPT ![t] = Ended(@, IF dbok THEN "finished" ELSE "db_error")]
    /\ UNCHANGED <<test_results, test_runs, db_now, guardVars,
                   nreq, max_submissions, notExecVars, made, hs>>

(***************************************************************************)
(* The execution pipeline as a whole.                                      *)
(***************************************************************************)
Next ==
    \/ Tick
    \/ \E h \in Handlers, who \in Users, p \in ProblemInputs, lang \in Languages :
           \/ \E dbok \in BOOLEAN : SubmitStart(h, who, p, lang, dbok)
           \/ TestStart(h, who, p, lang)
    \/ \E h \in Handlers :
           \/ SubmitGuard(h)
           \/ \E out \in RunOutputs \cup {RunnerError} : SubmitRunnerReturn(h, out)
           \/ \E dbok \in BOOLEAN : SubmitPersistFailed(h, dbok)
           \/ \E how \in {"ok", "count_fail", "begin_fail", "score_fail", "insert_fail"},
                 s \in ScoreValues : SubmitInsertHistory(h, how, s)
           \/ \E dbok \in BOOLEAN : SubmitInsertTest(h, dbok)
           \/ \E dbok \in BOOLEAN : SubmitCommit(h, dbok)
           \/ \E dbok \in BOOLEAN : SubmitBroadcast(h, dbok)
           \/ \E out \in RunOutputs \cup {RunnerError} : TestRunnerReturn(h, out)
           \/ \E how \in {"ok", "add_fail", "broadcast_fail"} : TestRecord(h, how)
    \/ \E t \in Tasks :
           \/ \E who \in Users, p \in ProblemInputs, lang \in Languages :
                  HttpRunTests(t, who, p, lang)
           \/ \E out \in {"CompileFail", "SpawnError", "Compiled"}, dbok \in BOOLEAN :
                  HttpCompiled(t, out, dbok)
           \/ \E r \in TestOutputs \cup {"error"}, dbok \in BOOLEAN, failok \in BOOLEAN :
                  HttpTestResult(t, r, dbok, failok)
           \/ \E dbok \in BOOLEAN : HttpFinish(t, dbok)

Spec == Init /\ [][Next]_vars

(***************************************************************************)
(* The competition clock (server/clock.rs).                                *)
(***************************************************************************)
\* Instant::now() advances
ClockTick ==
    /\ clk_now < MaxClock
    /\ clk_now' = clk_now + 1
    /\ UNCHANGED <<start_time, pause_time, total_time_paused, clock_log, time_out, notClockVars>>

\* let affected = self.pause_time.is_some();
PauseAffected(p) == p # None

\* ClockInfo::pause: pause_time = pause_time.or(Some(now)); returns affected
Pause ==
    /\ Len(clock_log) < MaxCalls
    /\ pause_time' = IF pause_time # None THEN pause_time ELSE clk_now
    /\ clock_log' = Append(clock_log, [op |-> "pause", ret |-> PauseAffected(pause_time)])
    /\ UNCHANGED <<clk_now, start_time, total_time_paused, time_out, notClockVars>>

\* let affected = self.pause_time.is_none();
UnpauseAffected(p) == p = None

\* ClockInfo::unpause: total_time_paused += pause_time.elapsed(); pause_time = None
Unpause ==
    /\ Len(clock_log) < MaxCalls
    /\ total_time_paused' = IF pause_time # None
                            THEN total_time_paused + (clk_now - pause_time)
                            ELSE total_time_paused
    /\ pause_time' = None
    /\ clock_log' = Append(clock_log, [op |-> "unpause", ret |-> UnpauseAffected(pause_time)])
    /\ UNCHANGED <<clk_now, start_time, time_out, notClockVars>>

\* Instant::elapsed: the time from an instant to now
Elapsed(instant) == clk_now - instant

\* ClockInfo::current_time: the time since the pause instant when paused, else
\* the time since start_time + total_time_paused
current_time ==
    IF pause_time # None
    THEN [paused |-> TRUE, duration |-> Elapsed(pause_time)]
    ELSE [paused |-> FALSE, duration |-> Elapsed(start_time + total_time_paused)]

\* a subtraction that goes below zero
PlainSub(a, b) == a - b

\* Duration::checked_sub: None when the result would be negative
checked_sub(a, b) == IF b > a THEN None ELSE a - b

\* CurrentTime::time_left: time_limit.checked_sub(duration).unwrap_or(0)
time_left(duration, time_limit) ==
    LET d == checked_sub(time_limit, duration)
    IN IF d = None THEN 0 ELSE d

\* a caller takes current_time() and asks time_left(limit) of it
TimeLeft(limit) ==
    /\ time_out' = [asked |-> TRUE, paused |-> current_time.paused,
                    duration |-> current_time.duration, limit |-> limit,
                    left |-> time_left(current_time.duration, limit)]
    /\ UNCHANGED <<clk_now, start_time, pause_time, total_time_paused, clock_log, notClockVars>>

\* patch_clock: under clock.write() it takes current_time(), calls pause() or
\* unpause(), dispatches the event when `affected`, answers with the time left
\* and, when `affected`, broadcasts GamePaused or GameUnpaused
PatchClock(is_paused, time_limit) ==
    LET affected == IF is_paused THEN PauseAffected(pause_time)
                    ELSE UnpauseAffected(pause_time)
    IN /\ Len(clock_log) < MaxCalls
       /\ pause_time' = IF is_paused
                         THEN (IF pause_time # None THEN pause_time ELSE clk_now)
                         ELSE None
       /\ total_time_paused' = IF ~is_paused /\ pause_time # None
                                THEN total_time_paused + (clk_now - pause_time)
                                ELSE total_time_paused
       /\ clock_log' = Append(clock_log, [op |-> IF is_paused THEN "pause" ELSE "unpause",
                                          ret |-> affected])
       /\ patch_out' =
              [n |-> patch_out.n + 1,
               is_paused |-> is_paused,
               dispatched |-> IF ~affected THEN "none"
                              ELSE IF is_paused THEN "OnPause" ELSE "OnUnpause",
               broadcast |-> IF ~affected THEN "none"
                             ELSE IF is_paused THEN "GamePaused" ELSE "GameUnpaused",
               time_left_in_seconds |-> time_left(current_time.duration, time_limit)]
       /\ UNCHANGED <<clk_now, start_time, time_out, execVars, teamVars, wsVars, sessVars,
                      replyVars, oldVars, updVars, moreVars>>

NextClock ==
    \/ ClockTick
    \/ Pause
    \/ Unpause
    \/ \E limit \in 0..MaxLimit : TimeLeft(limit)
    \/ \E is_paused \in BOOLEAN, limit \in 0..MaxLimit : PatchClock(is_paused, limit)

SpecClock == Init /\ [][NextClock]_vars

(***************************************************************************)
(* Positions of the handlers and tasks that the properties speak about.    *)
(***************************************************************************)
\* run_submission is past active_submissions.insert and its defer has not run
SubmitHolding(h) == hs[h].pc \in {"s_running", "s_result", "s_txn", "s_bcast"}

\* run_test is past active_tests.insert and its defer has not run
TestHolding(h) == hs[h].pc \in {"t_running", "t_result"}

\* the spawned task is between tokio::spawn and its end
TaskRunning(t) == task[t].pc \in {"compiling", "testing"}

(***************************************************************************)
(* Properties of the execution pipeline.                                   *)
(***************************************************************************)
\* no two Submit handlers are past the guard with the same key, and no guard
\* window persists more than one row
OneSubmitPerKey ==
    /\ \A h1, h2 \in Handlers :
           (h1 # h2 /\ SubmitHolding(h1) /\ SubmitHolding(h2))
               => Key(hs[h1].req) # Key(hs[h2].req)
    /\ \A k \in Users \X ProblemInputs : made[k] <= 1

\* a Submit that reaches the guard is accepted iff its key is free: otherwise it
\* gets "Submission is already running" and touches neither guard nor store
SubmitGuardStep ==
    \A h \in Handlers :
        (hs[h].pc = "s_counted" /\ hs'[h] # hs[h]) =>
            IF Key(hs[h].req) \in active_submissions
            THEN /\ hs'[h].pc = "idle"
                 /\ hs'[h].reply = "Submission is already running"
                 /\ UNCHANGED <<active_submissions, dbVars>>
            ELSE hs[h].req.problem \in Problems =>
                     /\ hs'[h].pc = "s_running"
                     /\ Key(hs[h].req) \in active_submissions'

\* C1: of two concurrent Submit requests with the same (connection, problem)
\* key exactly one is accepted, the other is rejected with an "already running"
\* error, and two submission rows are never written for one guard window.
C1_ConcurrentSubmitsOneAccepted == []OneSubmitPerKey /\ [][SubmitGuardStep]_vars

\* one handler holds the key while the other was rejected for the same key
C1_Witness ==
    \E h1, h2 \in Handlers :
        /\ SubmitHolding(h1)
        /\ hs[h2].pc = "idle"
        /\ hs[h2].reply = "Submission is already running"
        /\ Key(hs[h2].req) = Key(hs[h1].req)

\* C2: at most one execution job runs per (connection, problem) key at a time,
\* counting test runs and submissions together, whichever entry point started it.
C2_OneJobPerKey ==
    \A k \in Users \X Problems :
        Cardinality({h \in Handlers :
                        (SubmitHolding(h) \/ TestHolding(h)) /\ Key(hs[h].req) = k})
        + Cardinality({t \in Tasks : TaskRunning(t) /\ Key(task[t].req) = k}) <= 1

\* a Submit taken while the user already has max_submissions rows for the
\* problem is rejected at once: no guard, no sandbox, no row
CeilingStep ==
    \A h \in Handlers :
        (/\ hs[h].pc = "idle"
         /\ hs'[h] # hs[h]
         /\ hs'[h].req.kind = "Submit"
         /\ hs'[h].req.language = "known"
         /\ max_submissions # 0
         /\ count_previous_submissions(submission_history, hs'[h].req.who,
                                       hs'[h].req.problem) >= max_submissions)
        => /\ hs'[h].pc = "idle"
           /\ hs'[h].reply = "Only N submissions are allowed"
                  \/ hs'[h].exit = "getting previous submissions"
           /\ UNCHANGED <<guardVars, dbVars>>

\* C3: once a user has max_submissions rows for a problem, a further Submit is
\* rejected with an error before the guard is taken or the sandbox is spawned,
\* and no new row is written.
C3_AttemptCeiling == [][CeilingStep]_vars

\* a Submit was turned away at the ceiling
C3_Witness ==
    \E h \in Handlers :
        /\ hs[h].reply = "Only N submissions are allowed"
        /\ max_submissions # 0
        /\ count_previous_submissions(submission_history, hs[h].req.who,
                                      hs[h].req.problem) >= max_submissions

\* C4: the guard entry is released on every exit path of the execution (normal
\* return, error return or panic): the sets hold exactly the keys of the
\* handlers still inside, so a later request for the key is not locked out.
C4_GuardReleased ==
    /\ active_submissions = {Key(hs[h].req) : h \in {x \in Handlers : SubmitHolding(x)}}
    /\ active_tests = {Key(hs[h].req) : h \in {x \in Handlers : TestHolding(x)}}

\* a Submit left by an error after taking the guard, and its key is free again
C4_Witness ==
    \E h \in Handlers :
        /\ hs[h].pc = "idle"
        /\ hs[h].req.kind = "Submit"
        /\ hs[h].exit \in {"running", "committing transaction", "panic"}
        /\ Key(hs[h].req) \notin active_submissions

\* the rows of a user for one problem that carry that problem's largest time
NewestRows(db, user_id, q) ==
    {r \in db : /\ r.submitter = user_id
                /\ r.question_index = q
                /\ \A x \in db : (x.submitter = user_id /\ x.question_index = q)
                                     => x.time <= r.time}

\* the problems a user has rows for
Attempted(db, user_id) == {r.question_index : r \in {x \in db : x.submitter = user_id}}

\* C5: get_latest_submissions returns at most one row per problem, the one with
\* the largest timestamp for that user and problem, also when two rows of the
\* same problem carry the same timestamp.
C5_LatestOnePerProblem ==
    \A u \in Users :
        LET latest == get_latest_submissions(submission_history, u)
        IN /\ \A r \in latest : r \in NewestRows(submission_history, u, r.question_index)
           /\ \A r1, r2 \in latest : r1.question_index = r2.question_index => r1 = r2

\* C6: get_user_score is the sum of score over exactly one latest row per
\* problem the user attempted.
C6_ScoreSumsOnePerProblem ==
    \A u \in Users :
        \E pick \in SUBSET submission_history :
            /\ \A q \in Attempted(submission_history, u) :
                   Cardinality(pick \cap NewestRows(submission_history, u, q)) = 1
            /\ \A r \in pick :
                   r \in NewestRows(submission_history, u, r.question_index)
            /\ get_user_score(submission_history, u) = SumScores(pick)

\* while a Submit's transaction is open nothing it wrote can be read
TxnInvisible ==
    \A h \in Handlers :
        hs[h].txn.open =>
            /\ \A r \in submission_history : r.id # hs[h].history
            /\ \A t \in test_results : t.submission # hs[h].history

\* a Submit whose runner succeeded leaves the store untouched until it either
\* commits, which adds its row and all of its test rows, or fails, which adds
\* nothing
TxnStep ==
    \A h \in Handlers :
        (hs[h].pc \in {"s_result", "s_txn"} /\ hs[h].results.kind = "RunSuccess"
         /\ hs'[h] # hs[h]) =>
            IF hs'[h].pc = "s_bcast"
            THEN \E r \in submission_history' \ submission_history :
                     /\ submission_history' = submission_history \cup {r}
                     /\ r.id = hs[h].history
                     /\ test_results' \ test_results =
                            {NewTestRow(r.id, i, hs[h].results.vec[i]) : i \in TestIndexes}
                     /\ test_results \subseteq test_results'
            ELSE UNCHANGED <<submission_history, test_results>>

\* C7: persisting a Submit result is all-or-nothing: the history row and all of
\* its per-test rows become visible together, or none of them does.
C7_SubmitAllOrNothing == []TxnInvisible /\ [][TxnStep]_vars

\* a Submit failed after writing its row and a test row, and the store is empty
C7_Witness ==
    \E h \in Handlers :
        /\ hs[h].exit \in {"creating submission test history", "committing transaction"}
        /\ submission_history = {}
        /\ test_results = {}

C9_StartedRowsEnd ==
    \A r \in submission_history :
        r.state = "Started" =>
            \E t \in Tasks : task[t].pc = "testing" /\ task[t].submission = r.id

(***************************************************************************)
(* Properties of the clock.                                                *)
(***************************************************************************)
\* a pause() call answers whether it took the clock from running to paused, and
\* on a paused clock it changes neither the pause instant nor the paused total
PauseStep ==
    (Len(clock_log') = Len(clock_log) + 1 /\ clock_log'[Len(clock_log')].op = "pause")
        => /\ clock_log'[Len(clock_log')].ret = (pause_time = None /\ pause_time' # None)
           /\ pause_time # None => UNCHANGED <<pause_time, total_time_paused>>

\* C10: pause() returns true iff the call changed the clock from running to
\* paused (on a running clock two pause() calls in a row return true then
\* false), and a pause() on a paused clock leaves the pause instant and the
\* cumulative paused duration unchanged.
C10_PauseReportsTransition == [][PauseStep]_vars

\* an unpause() call answers whether it took the clock from paused to running;
\* from paused it adds the time since the pause instant to the paused total and
\* clears the pause instant, and on a running clock it changes nothing
UnpauseStep ==
    (Len(clock_log') = Len(clock_log) + 1 /\ clock_log'[Len(clock_log')].op = "unpause")
        => /\ clock_log'[Len(clock_log')].ret = (pause_time # None /\ pause_time' = None)
           /\ pause_time # None =>
                  /\ total_time_paused' = total_time_paused + (clk_now - pause_time)
                  /\ pause_time' = None
           /\ pause_time = None => UNCHANGED <<pause_time, total_time_paused>>

\* C11: unpause() returns true iff the call changed the clock from paused to
\* running (adding the time since the pause instant to the cumulative paused
\* duration and clearing the pause instant); on a running clock it returns
\* false and changes nothing.
C11_UnpauseReportsTransition == [][UnpauseStep]_vars

\* C12: time_left(limit) is limit minus the elapsed duration when the elapsed
\* duration is at most the limit and zero otherwise; it is never negative.
C12_TimeLeftSaturates ==
    time_out.asked =>
        /\ time_out.left = IF time_out.duration <= time_out.limit
                           THEN time_out.limit - time_out.duration
                           ELSE 0
        /\ time_out.left >= 0

\* time_left was asked with more time elapsed than the limit
C12_Witness ==
    /\ time_out.asked
    /\ time_out.duration > time_out.limit
    /\ time_out.limit > 0

(***************************************************************************)
(* The team registry (server/teams.rs).                                    *)
(***************************************************************************)
\* Utc::now() advances
UtcTick ==
    /\ utc_now < MaxUtc
    /\ utc_now' = utc_now + 1
    /\ UNCHANGED <<teams, team_call, notTeamVars>>

\* TeamInfo::check
check(t) == [t EXCEPT !.checked_in = TRUE, !.last_seen = utc_now, !.disconnected = FALSE]

\* a check that reports a transition whatever the entry held
EffectiveAlways(t) == TRUE

\* effective = !t.checked_in
Effective(t) == ~t.checked_in

\* TeamManagement::check_in: get_mut(name), effective, t.check()
CheckIn(name) ==
    /\ team_call.n < MaxTeamCalls
    /\ teams' = IF name \in DOMAIN teams
                THEN [teams EXCEPT ![name] = check(@)]
                ELSE teams
    /\ team_call' = [n |-> team_call.n + 1, op |-> "check_in", name |-> name,
                     ret |-> IF name \in DOMAIN teams THEN Effective(teams[name])
                             ELSE FALSE]
    /\ UNCHANGED <<utc_now, notTeamVars>>

\* a disconnect that also forgets the check-in
DisconnectAndForget(t) == [t EXCEPT !.disconnected = TRUE, !.checked_in = FALSE]

\* TeamInfo::disconnect
disconnect(t) == [t EXCEPT !.disconnected = TRUE]

\* TeamManagement::disconnect: get_mut(name), t.disconnect()
Disconnect(name) ==
    /\ team_call.n < MaxTeamCalls
    /\ teams' = IF name \in DOMAIN teams
                THEN [teams EXCEPT ![name] = disconnect(@)]
                ELSE teams
    /\ team_call' = [n |-> team_call.n + 1, op |-> "disconnect", name |-> name,
                     ret |-> FALSE]
    /\ UNCHANGED <<utc_now, notTeamVars>>

NextTeams ==
    \/ UtcTick
    \/ \E name \in TeamNames : CheckIn(name)
    \/ \E name \in TeamNames : Disconnect(name)

SpecTeams == Init /\ [][NextTeams]_vars

(***************************************************************************)
(* Properties of the team registry.                                        *)
(***************************************************************************)
\* a check_in call on a registered name answers whether the team was not yet
\* checked in and leaves it checked in, seen now and not disconnected; on any
\* other name it answers false and the registry is as before
CheckInStep ==
    (team_call'.n = team_call.n + 1 /\ team_call'.op = "check_in") =>
        LET name == team_call'.name
        IN IF name \in DOMAIN teams
           THEN /\ team_call'.ret = ~teams[name].checked_in
                /\ teams' = [teams EXCEPT ![name] =
                       [last_seen |-> utc_now, checked_in |-> TRUE, disconnected |-> FALSE]]
           ELSE /\ team_call'.ret = FALSE
                /\ teams' = teams

\* C16: check_in(id) returns true iff this call changed the team from
\* not-checked-in to checked-in (a second check_in returns false); for a
\* registered id it sets checked_in, refreshes last_seen and clears
\* disconnected; for an unregistered id it returns false and creates no entry.
C16_CheckInReportsTransition == [][CheckInStep]_vars

\* a second check_in of a registered team returned false
C16_Witness ==
    /\ team_call.op = "check_in"
    /\ team_call.name \in DOMAIN teams
    /\ team_call.ret = FALSE
    /\ team_call.n >= 2

\* a disconnect call sets the disconnected flag of the named team and nothing else
DisconnectStep ==
    (team_call'.n = team_call.n + 1 /\ team_call'.op = "disconnect") =>
        LET name == team_call'.name
        IN IF name \in DOMAIN teams
           THEN /\ teams'[name].disconnected
                /\ teams'[name].checked_in = teams[name].checked_in
                /\ teams'[name].last_seen = teams[name].last_seen
                /\ \A other \in DOMAIN teams \ {name} : teams'[other] = teams[other]
                /\ DOMAIN teams' = DOMAIN teams
           ELSE teams' = teams

\* C17: disconnect(id) sets the disconnected flag of that team and leaves its
\* checked_in flag, its last_seen value and every other team's entry unchanged.
C17_DisconnectSetsOnlyFlag == [][DisconnectStep]_vars

\* a team that had checked in was disconnected
C17_Witness ==
    /\ team_call.op = "disconnect"
    /\ team_call.name \in DOMAIN teams
    /\ teams[team_call.name].disconnected
    /\ teams[team_call.name].checked_in
    /\ teams[team_call.name].last_seen # None

(***************************************************************************)
(* The connection registry (server/websocket.rs).                          *)
(***************************************************************************)
\* the receiving half of a channel is dropped: its socket task has ended
CloseChannel(ch) ==
    /\ chans[ch].state = "open"
    /\ chans' = [chans EXCEPT ![ch].state = "closed"]
    /\ UNCHANGED <<active_connections, waiting_connections, nconn, waiter, connector,
                   bcast, notWsVars>>

\* UnboundedSender::send succeeds iff the receiving half is still there
SendOk(ch) == chans[ch].state = "open"

\* a retain that keeps every entry
RetainAll(send_ok) == TRUE

\* the closure given to retain: keep the entry iff the send succeeded
Retain(send_ok) == send_ok

\* WebSocketManager::broadcast: one send per entry, and the entries whose send
\* failed are dropped; returns ()
Broadcast ==
    /\ bcast.n < MaxBroadcasts
    /\ LET registered == {k \in ConnectionKinds : active_connections[k] # 0}
           reached == {active_connections[k] : k \in {x \in registered :
                                                         SendOk(active_connections[x])}}
       IN /\ chans' = [ch \in Channels |->
                 IF ch \in reached
                 THEN [chans[ch] EXCEPT !.queue = Append(@, bcast.n + 1)]
                 ELSE chans[ch]]
          /\ active_connections' = [k \in ConnectionKinds |->
                 IF k \in registered /\ Retain(SendOk(active_connections[k]))
                 THEN active_connections[k]
                 ELSE 0]
    /\ bcast' = [n |-> bcast.n + 1, ret |-> "unit",
                 warned |-> {k \in ConnectionKinds :
                                /\ active_connections[k] # 0
                                /\ ~SendOk(active_connections[k])}]
    /\ UNCHANGED <<waiting_connections, nconn, waiter, connector, notWsVars>>

\* WebSocketManager::remove_connection
RemoveConnection(who) ==
    /\ active_connections[who] # 0
    /\ active_connections' = [active_connections EXCEPT ![who] = 0]
    /\ UNCHANGED <<waiting_connections, chans, nconn, waiter, connector, bcast, notWsVars>>

\* the members of a sequence
Range(seq) == {seq[i] : i \in 1..Len(seq)}

\* a drain that alerts nobody
FulfilledNone(senders) == {}

\* a drain that alerts only the waiter that registered first
FulfilledFirst(senders) == IF senders = <<>> THEN {} ELSE {senders[1]}

\* for sender in senders { let _ = sender.send(connected.clone()); }
Fulfilled(senders) == Range(senders)

\* WebSocketManager::add_connection, first half: the channel is created and, for
\* a user, waiting_connections.remove(user) and a send to every waiter taken
AddConnectionDrain(c, who) ==
    /\ connector[c].pc = "idle"
    /\ nconn < MaxConnects
    /\ nconn' = nconn + 1
    /\ chans' = [chans EXCEPT ![nconn + 1].state = "open"]
    /\ connector' = [connector EXCEPT ![c] = [pc |-> "drained", who |-> who,
                                               chan |-> nconn + 1]]
    /\ IF who.kind = "User"
       THEN /\ waiting_connections' = [waiting_connections EXCEPT ![who.id] = <<>>]
            /\ waiter' = [w \in Waiters |->
                   IF /\ w \in Fulfilled(waiting_connections[who.id])
                      /\ waiter[w].pc = "waiting"
                      /\ waiter[w].delivered = 0
                   THEN [waiter[w] EXCEPT !.delivered = nconn + 1]
                   ELSE waiter[w]]
       ELSE UNCHANGED <<waiting_connections, waiter>>
    /\ UNCHANGED <<active_connections, bcast, notWsVars>>

\* WebSocketManager::add_connection, second half: active_connections.insert
AddConnectionInsert(c) ==
    /\ connector[c].pc = "drained"
    /\ active_connections' =
           [active_connections EXCEPT ![connector[c].who] = connector[c].chan]
    /\ connector' = [connector EXCEPT ![c] = IdleConnector]
    /\ waiter' = [w \in Waiters |->
           IF /\ waiter[w].pc \in {"checked", "waiting"}
              /\ UserKind(waiter[w].user) = connector[c].who
           THEN [waiter[w] EXCEPT !.connected = TRUE]
           ELSE waiter[w]]
    /\ UNCHANGED <<waiting_connections, chans, nconn, bcast, notWsVars>>

\* WebSocketManager::wait_for_connection, the lookup: return the handle if the
\* user is registered
WaitCheck(w, user) ==
    /\ waiter[w].pc = "idle"
    /\ waiter' = [waiter EXCEPT ![w] =
           IF active_connections[UserKind(user)] # 0
           THEN [IdleWaiter EXCEPT !.pc = "done", !.user = user, !.via = "registered",
                                   !.result = active_connections[UserKind(user)]]
           ELSE [IdleWaiter EXCEPT !.pc = "checked", !.user = user]]
    /\ UNCHANGED <<active_connections, waiting_connections, chans, nconn, connector,
                   bcast, notWsVars>>

\* waiting_connections.entry(user).or_default().push(tx), and the timeout starts
WaitRegister(w) ==
    /\ waiter[w].pc = "checked"
    /\ waiting_connections' =
           [waiting_connections EXCEPT ![waiter[w].user] = Append(@, w)]
    /\ waiter' = [waiter EXCEPT ![w].pc = "waiting"]
    /\ UNCHANGED <<active_connections, chans, nconn, connector, bcast, notWsVars>>

\* Ok(Ok(v)) => Some(v.clone())
WaitWoken(w) ==
    /\ waiter[w].pc = "waiting"
    /\ waiter[w].delivered # 0
    /\ waiter' = [waiter EXCEPT ![w].pc = "done", ![w].via = "woken",
                                ![w].result = waiter[w].delivered]
    /\ UNCHANGED <<active_connections, waiting_connections, chans, nconn, connector,
                   bcast, notWsVars>>

\* Err(_) => None: the timeout elapses with nothing received
WaitTimeout(w) ==
    /\ waiter[w].pc = "waiting"
    /\ waiter[w].delivered = 0
    /\ waiter' = [waiter EXCEPT ![w].pc = "done", ![w].via = "timeout", ![w].result = 0]
    /\ UNCHANGED <<active_connections, waiting_connections, chans, nconn, connector,
                   bcast, notWsVars>>

NextWs ==
    \/ \E ch \in Channels : CloseChannel(ch)
    \/ Broadcast
    \/ \E who \in ConnectionKinds : RemoveConnection(who)
    \/ \E c \in Connectors, who \in ConnectionKinds : AddConnectionDrain(c, who)
    \/ \E c \in Connectors : AddConnectionInsert(c)
    \/ \E w \in Waiters, user \in Users : WaitCheck(w, user)
    \/ \E w \in Waiters : WaitRegister(w)
    \/ \E w \in Waiters : WaitWoken(w)
    \/ \E w \in Waiters : WaitTimeout(w)

SpecWs == Init /\ [][NextWs]_vars

(***************************************************************************)
(* C13: broadcast(message) delivers the message to every registered        *)
(* connection whose outbound channel is open and, in the same pass,        *)
(* removes every connection whose channel is closed; it reports no error   *)
(* to the caller and leaves the open connections registered.               *)
(***************************************************************************)
BroadcastStep ==
    bcast'.n = bcast.n + 1 =>
        /\ bcast'.ret = "unit"
        /\ \A k \in ConnectionKinds :
               LET ch == active_connections[k]
               IN /\ (ch # 0 /\ chans[ch].state = "open") =>
                         /\ active_connections'[k] = ch
                         /\ chans'[ch].queue = Append(chans[ch].queue, bcast'.n)
                  /\ (ch # 0 /\ chans[ch].state = "closed") =>
                         /\ active_connections'[k] = 0
                         /\ chans'[ch].queue = chans[ch].queue
                  /\ ch = 0 => active_connections'[k] = 0

C13_BroadcastDeliversAndPrunes == [][BroadcastStep]_vars

\* a broadcast has dropped a closed connection and reached an open one
C13_Witness ==
    /\ bcast.n = 1
    /\ bcast.warned # {}
    /\ \A k \in bcast.warned : active_connections[k] = 0
    /\ \E k \in ConnectionKinds :
           /\ active_connections[k] # 0
           /\ chans[active_connections[k]].queue = <<1>>

(***************************************************************************)
(* C14: wait_for_connection(user, timeout) returns the user's handle at    *)
(* once when User{user} is registered; a wait that is pending when         *)
(* add_connection(User{user}) runs receives the new handle and resolves    *)
(* to it; a wait resolves to None only when its window elapses with        *)
(* nothing received.                                                       *)
(***************************************************************************)
WaitStep ==
    /\ \A w \in Waiters, u \in Users :
           (/\ waiter[w].pc = "idle"
            /\ waiter'[w].pc # "idle"
            /\ waiter'[w].user = u
            /\ active_connections[UserKind(u)] # 0) =>
               /\ waiter'[w].pc = "done"
               /\ waiter'[w].result = active_connections[UserKind(u)]
    /\ \A c \in Connectors :
           (connector[c].pc = "idle" /\ connector'[c].pc = "drained") =>
               \A w \in Waiters :
                   (/\ waiter[w].pc = "waiting"
                    /\ waiter[w].delivered = 0
                    /\ UserKind(waiter[w].user) = connector'[c].who) =>
                       waiter'[w].delivered = connector'[c].chan
    /\ \A w \in Waiters :
           (waiter[w].pc = "waiting" /\ waiter'[w].pc = "done") =>
               /\ waiter[w].delivered # 0 =>
                      /\ waiter'[w].result = waiter[w].delivered
                      /\ waiter'[w].via = "woken"
               /\ waiter[w].delivered = 0 =>
                      /\ waiter'[w].result = 0
                      /\ waiter'[w].via = "timeout"

C14_WaitForConnection == [][WaitStep]_vars

\* one wait was woken by the user's connect and resolved to the handle that was
\* then registered, another found the user registered, a third timed out
C14_Witness ==
    \E w \in Waiters :
        /\ waiter[w].pc = "done"
        /\ waiter[w].via = "woken"
        /\ waiter[w].result # 0
        /\ active_connections[UserKind(waiter[w].user)] = waiter[w].result
        /\ \E v \in Waiters \ {w} :
               /\ waiter[v].pc = "done"
               /\ waiter[v].via \in {"registered", "timeout"}

(***************************************************************************)
(* C15: no missed wake-up: whenever add_connection(User{u}) completes      *)
(* while a wait_for_connection(u, timeout) is in progress, that wait       *)
(* resolves to a handle and never to None.                                 *)
(***************************************************************************)
C15_NoMissedWakeup ==
    \A w \in Waiters :
        (waiter[w].pc = "done" /\ waiter[w].connected) => waiter[w].result # 0

(***************************************************************************)
(* Sessions (repositories/session.rs) and the WebSocket handshake          *)
(* (services/ws/connect.rs).                                               *)
(***************************************************************************)
\* the system clock advances
WallTick ==
    /\ wall_now < MaxWall
    /\ wall_now' = wall_now + 1
    /\ UNCHANGED <<sessions, issued, slog, hshake, notSessVars>>

\* create_session: a new random id, expiring one lifetime from now
CreateSession(user) ==
    /\ \E id \in SessionIds \ issued :
           /\ issued' = issued \cup {id}
           /\ sessions' = sessions \cup {[session_id |-> id, user_id |-> user,
                                          expires_at |-> wall_now + SessionLifetime]}
    /\ UNCHANGED <<wall_now, slog, hshake, notSessVars>>

\* an expired row that is left in the table
KeepSession(session_id) == sessions

\* DELETE FROM sessions WHERE session_id = $1
DeleteSession(session_id) == {s \in sessions : s.session_id # session_id}

\* close_session
CloseSession(session_id) ==
    /\ \E s \in sessions : s.session_id = session_id
    /\ sessions' = DeleteSession(session_id)
    /\ UNCHANGED <<issued, wall_now, slog, hshake, notSessVars>>

\* UNIX_EPOCH + expires_at < SystemTime::now()
Expired(s) == s.expires_at < wall_now

\* get_user_from_session: what it returns, the table it leaves, and whether it
\* found the session expired
get_user_from_session(session_id) ==
    LET rows == {s \in sessions : s.session_id = session_id}
    IN IF rows = {}
       THEN [ret |-> "SessionNotFound", user |-> "none", db |-> sessions,
             expired |-> FALSE]
       ELSE LET session == CHOOSE s \in rows : TRUE
            IN IF Expired(session)
               THEN [ret |-> "SessionNotFound", user |-> "none",
                     db |-> DeleteSession(session_id), expired |-> TRUE]
               ELSE [ret |-> "Ok", user |-> session.user_id, db |-> sessions,
                     expired |-> FALSE]

\* the ids some lookup has found expired
Dead(session_id, look) == IF look.expired THEN slog.dead \cup {session_id} ELSE slog.dead

\* a caller other than the handshake looks a session up
Lookup(session_id) ==
    /\ slog.n < MaxLookups
    /\ LET look == get_user_from_session(session_id)
       IN /\ sessions' = look.db
          /\ slog' = [n |-> slog.n + 1, session_id |-> session_id, ret |-> look.ret,
                      user |-> look.user, dead |-> Dead(session_id, look)]
    /\ UNCHANGED <<issued, wall_now, hshake, notSessVars>>

\* connect_websocket followed by handle_socket's registration: a handshake with
\* no Sec-WebSocket-Protocol header is a leaderboard, one whose header names a
\* live session is that user, any other is answered with AuthError::ExpiredToken
Handshake(header) ==
    /\ hshake.n < MaxHandshakes
    /\ nconn < MaxConnects
    /\ LET look == get_user_from_session(header)
           accepted == header = "absent" \/ look.ret = "Ok"
           who == IF header = "absent" THEN LeaderboardKind ELSE UserKind(look.user)
       IN /\ IF header = "absent"
             THEN UNCHANGED <<sessions, slog>>
             ELSE /\ sessions' = look.db
                  /\ slog' = [slog EXCEPT !.dead = Dead(header, look)]
          /\ IF accepted
             THEN /\ hshake' = [n |-> hshake.n + 1, header |-> header,
                                ret |-> "upgrade", who |-> who]
                  /\ nconn' = nconn + 1
                  /\ chans' = [chans EXCEPT ![nconn + 1].state = "open"]
                  /\ active_connections' = [active_connections EXCEPT ![who] = nconn + 1]
             ELSE /\ hshake' = [n |-> hshake.n + 1, header |-> header,
                                ret |-> "ExpiredToken", who |-> UserKind("none")]
                  /\ UNCHANGED <<nconn, chans, active_connections>>
    /\ UNCHANGED <<issued, wall_now, waiting_connections, waiter, connector, bcast,
                   execVars, clockVars, teamVars, replyVars, oldVars, updVars, patchVars, moreVars>>

NextSessions ==
    \/ WallTick
    \/ \E user \in Users : CreateSession(user)
    \/ \E id \in SessionIds : CloseSession(id)
    \/ \E id \in SessionIds \cup {UnknownId} : Lookup(id)
    \/ \E header \in Headers : Handshake(header)

SpecSessions == Init /\ [][NextSessions]_vars

(***************************************************************************)
(* C18: a session lookup made after the session's expiry instant fails     *)
(* the caller and deletes the session row, and every later lookup of that  *)
(* session id fails too; a lookup made before expiry succeeds and leaves   *)
(* the row in place.                                                       *)
(***************************************************************************)
LookupStep ==
    slog'.n = slog.n + 1 =>
        LET id == slog'.session_id
        IN /\ \A s \in sessions :
                  s.session_id = id =>
                      /\ s.expires_at < wall_now =>
                             /\ slog'.ret = "SessionNotFound"
                             /\ \A r \in sessions' : r.session_id # id
                      /\ s.expires_at > wall_now =>
                             /\ slog'.ret = "Ok"
                             /\ slog'.user = s.user_id
                             /\ sessions' = sessions
           /\ id \in slog.dead => slog'.ret = "SessionNotFound"

HandshakeStep ==
    hshake'.n = hshake.n + 1 =>
        LET header == hshake'.header
            valid == \E s \in sessions :
                         s.session_id = header /\ ~(s.expires_at < wall_now)
        IN ~valid =>
               /\ hshake'.ret = "upgrade"
               /\ hshake'.who = LeaderboardKind
               /\ active_connections'[LeaderboardKind] # 0

C19_InvalidTokenIsLeaderboard == [][HandshakeStep]_vars

(***************************************************************************)
(* The replies to a test run and to a submission (services/ws/mod.rs).     *)
(***************************************************************************)
\* problem.tests: each test has its input (here its position) and a visible flag
PacketTests ==
    UNION {{[i \in 1..n |-> [input |-> i, visible |-> v[i]]] : v \in [1..n -> BOOLEAN]} :
               n \in 1..MaxPacketTests}

\* what the runner can report of the test at position i; the captured output of
\* a failed test is tagged with the position of the test
TestOutputAt(i) ==
    {[kind |-> "Pass", stdout |-> 0], [kind |-> "Timeout", stdout |-> 0],
     [kind |-> "IncorrectOutput", stdout |-> i], [kind |-> "Crash", stdout |-> i]}

\* RunOutput::RunSuccess(vec): one output per test
RunVecs(tests) ==
    {v \in [1..Len(tests) -> UNION {TestOutputAt(i) : i \in 1..Len(tests)}] :
         \A i \in 1..Len(tests) : v[i] \in TestOutputAt(i)}

\* impl From<TestOutput> for TestOutputResponse
TestOutputResponse(value) ==
    CASE value.kind = "Pass" -> [kind |-> "pass", reason |-> "none", output |-> 0]
      [] value.kind = "Timeout" -> [kind |-> "fail", reason |-> "timeout", output |-> 0]
      [] value.kind = "IncorrectOutput" ->
             [kind |-> "fail", reason |-> "incorrect-output", output |-> value.stdout]
      [] value.kind = "Crash" ->
             [kind |-> "fail", reason |-> "crash", output |-> value.stdout]

\* vec.into_iter().zip(problem.tests.iter())
Zip(vec, tests) ==
    [i \in 1..(IF Len(vec) < Len(tests) THEN Len(vec) ELSE Len(tests)) |->
         <<vec[i], tests[i]>>]

\* a filter that lets every test through
KeepAny(pair) == TRUE

\* .filter(|(_, t)| t.visible)
KeepVisible(pair) == pair[2].visible

\* .filter(..).map(|(r, t)| (r.into(), t.clone())).collect()
IndividualResults(vec, tests) ==
    LET kept == SelectSeq(Zip(vec, tests), KeepVisible)
    IN [j \in 1..Len(kept) |-> <<TestOutputResponse(kept[j][1]), kept[j][2]>>]

\* success * 100 / problem.tests.len()
Percent(vec, tests) ==
    (Cardinality({i \in 1..Len(vec) : vec[i].kind = "Pass"}) * 100) \div Len(tests)

\* the results field of the reply to a run output
ReplyResults(kind, vec, tests) ==
    CASE kind = "CompileSpawnFail" -> [kind |-> "InternalError", tests |-> <<>>]
      [] kind = "CompileFail" -> [kind |-> "CompileFail", tests |-> <<>>]
      [] kind = "RunSuccess" ->
             [kind |-> "Individual", tests |-> IndividualResults(vec, tests)]

\* the reply a handler sends for a run output
Reply(reply, kind, vec, tests) ==
    [n |-> sent.n + 1, kind |-> reply, results |-> ReplyResults(kind, vec, tests),
     percent |-> IF kind = "RunSuccess" THEN Percent(vec, tests) ELSE 0,
     problem_tests |-> tests, vec |-> vec]

RunKinds == {"CompileSpawnFail", "CompileFail", "RunSuccess"}

\* WebSocketRecv::run_test answers with WebSocketSend::TestResults
ReplyTestResults ==
    /\ sent.n < MaxReplies
    /\ \E tests \in PacketTests, kind \in RunKinds :
           \E vec \in RunVecs(tests) : sent' = Reply("TestResults", kind, vec, tests)
    /\ UNCHANGED notReplyVars

\* WebSocketRecv::run_submission answers with WebSocketSend::Submit
ReplySubmit ==
    /\ sent.n < MaxReplies
    /\ \E tests \in PacketTests, kind \in RunKinds :
           \E vec \in RunVecs(tests) : sent' = Reply("Submit", kind, vec, tests)
    /\ UNCHANGED notReplyVars

NextReply ==
    \/ ReplyTestResults
    \/ ReplySubmit

SpecReply == Init /\ [][NextReply]_vars

(***************************************************************************)
(* C20: every TestResults or Submit reply of kind Individual contains      *)
(* exactly the results of the tests flagged visible, in test order, and    *)
(* the output of a hidden test is never sent to the client.                *)
(***************************************************************************)
VisibleIndexes(tests) == {i \in 1..Len(tests) : tests[i].visible}

OldRunTest(h, who, p, lang) ==
    /\ old[h].pc = "idle"
    /\ old_n < MaxRequests
    /\ old_n' = old_n + 1
    /\ LET key == <<who, p>>
           present == ~TryInsert(active_tests, key)
           r == [IdleOld EXCEPT !.key = key]
       IN IF lang = "unknown"
          THEN /\ old' = [old EXCEPT ![h] =
                      [r EXCEPT !.reply = "Unknown language", !.exit = "ok"]]
               /\ UNCHANGED active_tests
          ELSE IF p \notin Problems
          THEN \* index out of bounds: the panic unwinds through the defer
               /\ old' = [old EXCEPT ![h] =
                      [r EXCEPT !.present = present, !.exit = "panic",
                                !.reply = IF present THEN "Tests are already running."
                                          ELSE "none"]]
               /\ active_tests' = ReleaseGuard(active_tests \cup {key}, key, "panic")
          ELSE /\ old' = [old EXCEPT ![h] =
                      [r EXCEPT !.pc = "running", !.present = present, !.ran = TRUE,
                                !.reply = IF present THEN "Tests are already running."
                                          ELSE "none"]]
               /\ active_tests' = active_tests \cup {key}
    /\ UNCHANGED notOldVars

\* runner.run().await? returns, the match on the output, and the defer runs
OldRunnerReturn(h, out) ==
    /\ old[h].pc = "running"
    /\ LET how == CASE out = RunnerError -> "running"
                    [] out.kind = "CompileSpawnFail" -> "Failed to spawn compile command"
                    [] OTHER -> "ok"
       IN /\ old' = [old EXCEPT ![h].pc = "idle", ![h].exit = how,
                                ![h].reply = IF out.kind = "RunSuccess" THEN "TestResults"
                                             ELSE @]
          /\ active_tests' = ReleaseGuard(active_tests, old[h].key, how)
    /\ UNCHANGED <<old_n, notOldVars>>

\* the connections a message may arrive on: a user's, or the Leaderboard one
\* that connect.rs gives every socket
OldConnections == Users \cup {LeaderboardKind.id}

NextOld ==
    \/ \E h \in Handlers, who \in OldConnections, p \in ProblemInputs, lang \in Languages :
           OldRunTest(h, who, p, lang)
    \/ \E h \in Handlers, out \in RunOutputs \cup {RunnerError} : OldRunnerReturn(h, out)

SpecOld == Init /\ [][NextOld]_vars

(***************************************************************************)
(* C21: a request rejected because its (connection, problem) key is        *)
(* already in the active set stops there: it does not invoke the runner    *)
(* and does not remove the key, so the job that holds the guard keeps it   *)
(* until that job itself exits.                                            *)
(***************************************************************************)
\* the earlier handler has found its key present: it goes no further
OldRejectStep ==
    \A h \in Handlers :
        (old[h].pc = "idle" /\ old'[h] # old[h] /\ old'[h].present) =>
            /\ old'[h].pc = "idle"
            /\ ~old'[h].ran
            /\ active_tests' = active_tests

\* a job that took the key holds it while it runs
OldHolderKeeps ==
    \A h \in Handlers :
        (old[h].pc = "running" /\ ~old[h].present) => old[h].key \in active_tests

AttemptsStep ==
    \A h \in Handlers :
        (/\ hs[h].pc = "s_result"
         /\ hs'[h].pc = "s_txn"
         /\ AllPass(hs[h].results.vec)) =>
            hs[h].attempts =
                count_previous_submissions(submission_history, hs[h].req.who,
                                           hs[h].req.problem)

C22_AttemptsCountIsCurrent == [][AttemptsStep]_vars

(***************************************************************************)
(* C23: count_other_submissions(problem), as used to score a submission    *)
(* by user U, returns the number of users other than U who already have a  *)
(* successful submission for that problem with an earlier timestamp: U's   *)
(* own earlier successes are not counted and a user with several           *)
(* successes counts once.                                                  *)
(***************************************************************************)
\* the users other than submitter with an earlier successful row for the problem
OtherSolvers(submitter, question_index) ==
    {u \in Users \ {submitter} :
        \E r \in submission_history :
            /\ r.submitter = u
            /\ r.question_index = question_index
            /\ r.success
            /\ r.time < db_now}

CompletionsStep ==
    \A h \in Handlers :
        (/\ hs[h].pc = "s_result"
         /\ hs[h].results.kind = "RunSuccess"
         /\ hs'[h].pc = "s_txn") =>
            count_other_submissions(submission_history, hs[h].req.problem, db_now) =
                Cardinality(OtherSolvers(hs[h].req.who, hs[h].req.problem))

C23_CountsOtherSolvers == [][CompletionsStep]_vars

(***************************************************************************)
(* broadcast_team_update at the end of run_test and run_submission         *)
(* (services/ws/mod.rs): the jobs from the point where their results are   *)
(* recorded.  The queries are taken to succeed.                            *)
(***************************************************************************)
\* the store's clock advances
UpdTick ==
    /\ db_now < MaxTime
    /\ db_now' = db_now + 1
    /\ UNCHANGED <<submission_history, test_runs, updVars, notUpdVars>>

\* the loop over get_latest_submissions: Pass or Fail for each problem that has
\* a latest row, NotAttempted for the others
StatesOf(db, username) ==
    [p \in Problems |->
        LET rows == {r \in get_latest_submissions(db, username) : r.question_index = p}
        IN IF rows = {} THEN "NotAttempted"
           ELSE IF (CHOOSE r \in rows : TRUE).success THEN "Pass" ELSE "Fail"]

\* a job passes its guard and its runner returns: a test run records add_test,
\* a submission goes on to persist its row
JobStart(j, kind, team, p) ==
    /\ upd[j].pc = "idle"
    /\ upd_n < MaxJobs
    /\ \A k \in Jobs : ~(upd[k].kind = kind /\ upd[k].team = team /\ upd[k].problem = p)
    /\ upd_n' = upd_n + 1
    /\ upd' = [upd EXCEPT ![j] =
           [IdleJob EXCEPT !.pc = IF kind = "Submit" THEN "commit" ELSE "latest",
                           !.kind = kind, !.team = team, !.problem = p]]
    /\ test_runs' = IF kind = "RunTest" THEN [test_runs EXCEPT ![<<team, p>>] = @ + 1]
                    ELSE test_runs
    /\ UNCHANGED <<submission_history, db_now, last_update, notUpdVars>>

\* run_submission: the row is committed (at most one row of a team and problem
\* per second is considered)
JobCommit(j, success, s) ==
    /\ upd[j].pc = "commit"
    /\ \A r \in submission_history :
           ~(/\ r.submitter = upd[j].team
             /\ r.question_index = upd[j].problem
             /\ r.time = db_now)
    /\ submission_history' = submission_history \cup
           {NewRow(Cardinality(submission_history) + 1, upd[j].team, upd[j].problem,
                   InsertedState(FALSE), SubmissionScore(success, s), success)}
    /\ upd' = [upd EXCEPT ![j].pc = "latest"]
    /\ UNCHANGED <<db_now, test_runs, upd_n, last_update, notUpdVars>>

\* broadcast_team_update: get_latest_submissions and the loop building new_states
JobLatest(j) ==
    /\ upd[j].pc = "latest"
    /\ upd' = [upd EXCEPT ![j].pc = "score",
                          ![j].new_states = StatesOf(submission_history, upd[j].team),
                          ![j].states_of = submission_history]
    /\ UNCHANGED <<submission_history, db_now, test_runs, upd_n, last_update, notUpdVars>>

\* broadcast_team_update: get_user_score, then the TeamUpdate is broadcast and
\* the job ends
JobScore(j) ==
    /\ upd[j].pc = "score"
    /\ last_update' = [last_update EXCEPT ![upd[j].team] =
           [n |-> @.n + 1,
            new_score |-> get_user_score(submission_history, upd[j].team),
            new_states |-> upd[j].new_states,
            states_of |-> upd[j].states_of,
            score_of |-> submission_history]]
    /\ upd' = [upd EXCEPT ![j] = IdleJob]
    /\ UNCHANGED <<submission_history, db_now, test_runs, upd_n, notUpdVars>>

NextUpdate ==
    \/ UpdTick
    \/ \E j \in Jobs, kind \in {"RunTest", "Submit"}, team \in Users, p \in Problems :
           JobStart(j, kind, team, p)
    \/ \E j \in Jobs, success \in BOOLEAN, s \in ScoreValues : JobCommit(j, success, s)
    \/ \E j \in Jobs : JobLatest(j)
    \/ \E j \in Jobs : JobScore(j)

SpecUpdate == Init /\ [][NextUpdate]_vars

(***************************************************************************)
(* C24: broadcasts do not diverge from persisted state: once all of a      *)
(* team's in-flight test and submit jobs have finished, the most recently  *)
(* broadcast TeamUpdate for that team carries the score and the            *)
(* per-problem states computed from the persisted latest-per-problem rows, *)
(* and the score and states inside one TeamUpdate come from the same       *)
(* database state.                                                         *)
(***************************************************************************)
C24_BroadcastMatchesStore ==
    \A team \in Users :
        last_update[team].n > 0 =>
            /\ last_update[team].states_of = last_update[team].score_of
            /\ (\A j \in Jobs : upd[j].team # team) =>
                   /\ last_update[team].new_score =
                          get_user_score(submission_history, team)
                   /\ last_update[team].new_states = StatesOf(submission_history, team)

(***************************************************************************)
(* C25: if handling a RunTest or Submit raises an unexpected error (runner *)
(* failure, database failure, score computation failure), the error is     *)
(* caught and the originating client receives an error message for that    *)
(* request.                                                                *)
(***************************************************************************)
\* the messages that tell the client of an error: WebSocketSend::Error and
\* TestResults::InternalError
ErrorMessages ==
    {"Unknown language", "Only N submissions are allowed", "Submission is already running",
     "Tests are already running", "internal_error"}

\* handle() returned Err(..): the context of the error it propagated
ReturnedErr(h) == hs[h].pc = "idle" /\ hs[h].exit \notin {"none", "ok", "panic"}

C25_ErrorsAreReported ==
    \A h \in Handlers : ReturnedErr(h) => hs[h].reply \in ErrorMessages

(***************************************************************************)
(* C26: current_time().duration equals the time elapsed since the start    *)
(* minus all time spent paused (the current pause included), in the        *)
(* running and in the paused state alike; so it does not advance while    *)
(* the clock is paused and never decreases.                                *)
(***************************************************************************)
\* the time spent paused so far, the pause in progress included
TimePaused ==
    total_time_paused + (IF pause_time # None THEN clk_now - pause_time ELSE 0)

CurrentTimeStep ==
    (time_out' # time_out) =>
        time_out'.duration = (clk_now - start_time) - TimePaused

C26_DurationExcludesPauses == [][CurrentTimeStep]_vars


\* a step of patch_clock broadcasts GamePaused and dispatches OnPause iff it took
\* the clock from running to paused, broadcasts GameUnpaused and dispatches
\* OnUnpause iff it took the clock from paused to running
PatchStep ==
    (patch_out'.n # patch_out.n) =>
        LET paused_by_it == pause_time = None /\ pause_time' # None
            unpaused_by_it == pause_time # None /\ pause_time' = None
        IN /\ (patch_out'.broadcast = "GamePaused") <=> paused_by_it
           /\ (patch_out'.dispatched = "OnPause") <=> paused_by_it
           /\ (patch_out'.broadcast = "GameUnpaused") <=> unpaused_by_it
           /\ (patch_out'.dispatched = "OnUnpause") <=> unpaused_by_it

\* C27: a clock PATCH request broadcasts GamePaused (GameUnpaused) and dispatches
\* OnPause (OnUnpause) exactly when it changed the clock from running to paused
\* (from paused to running); a request for the state the clock is already in
\* broadcasts and dispatches nothing.
C27_PatchAnnouncesTransitions == [][PatchStep]_vars

\* a step of a RunTest handler or of a run-tests task inserts no submission row
TestRunStep ==
    /\ \A h \in Handlers :
           (hs'[h] # hs[h] /\ hs'[h].req.kind = "RunTest")
               => {r.id : r \in submission_history'} = {r.id : r \in submission_history}
    /\ \A t \in Tasks :
           (task'[t] # task[t])
               => {r.id : r \in submission_history'} = {r.id : r \in submission_history}

\* C28: a test run (RunTest message or run-tests request) never inserts a
\* submission_history row, on any outcome (compile-spawn failure, compile
\* failure, tests executed); it only records a test-attempt counter row.
C28_TestRunsInsertNoSubmission == [][TestRunStep]_vars

\* the Submit handler h holds a compile-spawn failure or a compile failure
CompileFailed(h) ==
    /\ hs[h].req.kind = "Submit"
    /\ hs[h].results.kind \in {"CompileSpawnFail", "CompileFail"}

\* what a Submit handler does with a failed compile step: unless the insert
\* itself fails, one new row of the submitter for the problem, Failed, score 0,
\* success false, and the reply; no test-history row; then the broadcast, which
\* writes nothing and ends the handler
CompileFailStep ==
    \A h \in Handlers :
        (CompileFailed(h) /\ hs'[h] # hs[h]) =>
            /\ test_results' = test_results
            /\ hs[h].pc \in {"s_result", "s_bcast"}
            /\ hs[h].pc = "s_result" =>
                   \/ /\ hs'[h].exit = "creating submission history"
                      /\ submission_history' = submission_history
                   \/ /\ hs'[h].pc = "s_bcast"
                      /\ hs'[h].reply = IF hs[h].results.kind = "CompileFail"
                                        THEN "compile_fail" ELSE "internal_error"
                      /\ \E r \in submission_history' \ submission_history :
                             /\ submission_history' = submission_history \cup {r}
                             /\ r.id = hs'[h].history
                             /\ r.submitter = hs[h].req.who
                             /\ r.question_index = hs[h].req.problem
                             /\ r.state = "Failed"
                             /\ r.score = 0
                             /\ r.success = FALSE
            /\ hs[h].pc = "s_bcast" =>
                   /\ submission_history' = submission_history
                   /\ hs'[h].pc = "idle"
                   /\ hs'[h].reply = hs[h].reply
                   /\ hs'[h].exit \in {"ok", "getting user submissions"}

TerminalStates == {"Finished", "Cancelled", "Failed"}

\* one row per submission id
UniqueIds ==
    \A r, q \in submission_history : r.id = q.id => r = q

\* a step keeps every row as it is, except that a Started row may become a
\* terminal one
TerminalStep ==
    \A r \in submission_history :
        \/ r \in submission_history'
        \/ /\ r.state = "Started"
           /\ \E q \in submission_history' :
                  /\ q.id = r.id
                  /\ q.state \in TerminalStates

\* C30: once a submission row is in a terminal state (Finished, Cancelled or
\* Failed), its state, score and success never change again: finish(), fail()
\* or cancel() are applied only to a row still in Started, and at most one of
\* them per submission id.
C30_TerminalRowsAreFinal == []UniqueIds /\ [][TerminalStep]_vars

\* fail() has just been applied to the row of a run-tests task while another
\* row, already Finished, is in the store
C30_Witness ==
    \E t \in Tasks, r, q \in submission_history :
        /\ task[t].pc = "done"
        /\ task[t].exit = "db_error"
        /\ q.id = task[t].submission
        /\ q.state = "Failed"
        /\ r.id # q.id
        /\ r.state = "Finished"

\* the test-history rows of one submission
TestRowsOf(id) == {x \in test_results : x.submission = id}

\* no two test-history rows of a submission have the same test_index
DistinctTestIndexes ==
    \A a, b \in test_results :
        (a.submission = b.submission /\ a.test_index = b.test_index) => a = b

\* a Finished submission has one test-history row for each test of its problem
\* and none besides
FinishedHasAllTests ==
    \A r \in submission_history :
        r.state = "Finished" =>
            /\ \A i \in TestIndexes :
                   Cardinality({x \in TestRowsOf(r.id) : x.test_index = i}) = 1
            /\ \A x \in TestRowsOf(r.id) : x.test_index \in TestIndexes

AnonymousStep ==
    \A h \in Handlers :
        (/\ old[h].pc = "idle"
         /\ old'[h] # old[h]
         /\ old'[h].key[1] = LeaderboardKind.id) =>
            /\ old'[h].pc = "idle"
            /\ ~old'[h].ran
            /\ old'[h].reply # "none"
            /\ active_tests' = active_tests

\* C32: a RunTest or Submit message received on an anonymous Leaderboard
\* connection is answered with an Error message only: it never acquires an
\* execution guard, never invokes the runner and never writes a test-run or
\* submission row.
C32_AnonymousIsRefused == [][AnonymousStep]_vars

(***************************************************************************)
(* Event sinks (server/hooks): the scripts and the webhooks.               *)
(***************************************************************************)
\* EventDispatcherService::dispatch: the event is sent on the channel of each
\* handler and Ok(()) is returned; the handlers never drop their receivers
HookDispatch ==
    /\ hook_n < MaxEvents
    /\ hook_n' = hook_n + 1
    /\ hook_ret' = [hook_ret EXCEPT ![hook_n + 1] = "ok"]
    /\ script_q' = Append(script_q, hook_n + 1)
    /\ webhook_q' = Append(webhook_q, hook_n + 1)
    /\ UNCHANGED <<evals, posts, notHookVars>>

\* EventHookHandler::start: recv(), tokio::spawn, and JSEvaluator::start spawns
\* the thread that evaluates the scripts
ScriptsReceive ==
    /\ script_q # <<>>
    /\ evals' = [evals EXCEPT ![Head(script_q)].state = "running"]
    /\ script_q' = Tail(script_q)
    /\ UNCHANGED <<hook_n, hook_ret, webhook_q, posts, notHookVars>>

\* collect::<anyhow::Result<Vec<()>>>() stops at the first Err
Collected(s, ok) ==
    IF ~ok THEN "err" ELSE IF s = NumScripts THEN "ok" ELSE "running"

\* the iterator of JSEvaluator::start yields the next script: evaluate(event, p)
ScriptEvaluate(e, ok) ==
    /\ evals[e].state = "running"
    /\ LET s == Cardinality(evals[e].attempted) + 1
       IN evals' = [evals EXCEPT ![e] =
              [state |-> Collected(s, ok),
               attempted |-> @.attempted \cup {s},
               failed |-> IF ok THEN @.failed ELSE @.failed \cup {s}]]
    /\ UNCHANGED <<hook_n, hook_ret, script_q, webhook_q, posts, notHookVars>>

\* EventWebhookHandler::start: recv(), one spawned POST per URL, join_all()
WebhooksPublish(outcome) ==
    /\ webhook_q # <<>>
    /\ posts' = [posts EXCEPT ![Head(webhook_q)] =
           [done |-> TRUE, attempted |-> Webhooks,
            failed |-> {w \in Webhooks : ~outcome[w]}]]
    /\ webhook_q' = Tail(webhook_q)
    /\ UNCHANGED <<hook_n, hook_ret, script_q, evals, notHookVars>>

NextHooks ==
    \/ HookDispatch
    \/ ScriptsReceive
    \/ \E e \in Events, ok \in BOOLEAN : ScriptEvaluate(e, ok)
    \/ \E outcome \in [Webhooks -> BOOLEAN] : WebhooksPublish(outcome)

SpecHooks == Init /\ [][NextHooks]_vars

\* the evaluation of the scripts for event e has ended
EvaluationEnded(e) == evals[e].state \in {"ok", "err"}

\* C33: sink failures are isolated: for each dispatched event every registered
\* sink (each event-handler script and each webhook URL) is attempted, whether
\* or not another sink for the same event failed, and no sink failure reaches
\* the code that dispatched the event.
C33_SinkFailuresIsolated ==
    \A e \in Events :
        /\ EvaluationEnded(e) => evals[e].attempted = Scripts
        /\ posts[e].done => posts[e].attempted = Webhooks
        /\ hook_ret[e] \in {"none", "ok"}

\* the waits for user u that are registered and have received nothing yet
Pending(u) ==
    {w \in Waiters : waiter[w].pc = "waiting" /\ waiter[w].user = u
                     /\ waiter[w].delivered = 0}

\* the drain of an add_connection for user u hands the new handle to every
\* pending wait for u, empties u's waiter list, and leaves the waits and the
\* lists of the other users alone; a wait that was handed a handle returns it
FulfilAllStep ==
    /\ \A c \in Connectors :
           (/\ connector[c].pc = "idle"
            /\ connector'[c].pc = "drained"
            /\ connector'[c].who.kind = "User") =>
               LET u == connector'[c].who.id
               IN /\ \A w \in Pending(u) : waiter'[w].delivered = connector'[c].chan
                  /\ waiting_connections'[u] = <<>>
                  /\ \A v \in Users \ {u} :
                         waiting_connections'[v] = waiting_connections[v]
                  /\ \A w \in Waiters : waiter[w].user # u => waiter'[w] = waiter[w]
    /\ \A w \in Waiters :
           (/\ waiter[w].pc = "waiting"
            /\ waiter[w].delivered # 0
            /\ waiter'[w].pc # "waiting") =>
               /\ waiter'[w].pc = "done"
               /\ waiter'[w].result = waiter[w].delivered

\* C34: one connection event fulfils all waiters: when add_connection(User{u})
\* runs while several wait_for_connection(u, ..) calls are pending, every one of
\* them resolves to the new connection's handle, the waiter list for u is empty
\* afterwards, and waiters registered for other users stay pending.
C34_OneConnectFulfilsAll == [][FulfilAllStep]_vars

\* two waits for the same user were woken by one add_connection and returned
\* the same handle
C34_Witness ==
    \E w, v \in Waiters :
        /\ w # v
        /\ waiter[w].user = waiter[v].user
        /\ waiter[w].pc = "done" /\ waiter[v].pc = "done"
        /\ waiter[w].via = "woken" /\ waiter[v].via = "woken"
        /\ waiter[w].result # 0
        /\ waiter[w].result = waiter[v].result
        /\ waiting_connections[waiter[w].user] = <<>>

(***************************************************************************)
(* Streaming of test results by the run-tests task (services/testing.rs).  *)
(***************************************************************************)
\* a channel with room for one item less than there are tests
ChannelOneShort == NumTests - 1

\* tokio::sync::mpsc::channel(test_count)
ChannelCapacity == NumTests

\* the task has compiled the solution and created the Started row: it creates
\* the result channel, spawns the forwarder and enters its loop
StreamStart ==
    /\ runloop.pc = "idle"
    /\ runloop' = [IdleRun EXCEPT !.pc = "wait_next", !.row = "Started"]
    /\ forwarder' = [IdleForwarder EXCEPT !.pc = "recv"]
    /\ result_rx' = TRUE
    /\ UNCHANGED <<produced, result_chan, test_msgs, user_conn, open_conns, conn_ids,
                   torn, notStreamVars>>

\* the user's socket connects: add_connection hands the new handle to a pending
\* wait_for_connection and registers it
StreamConnect ==
    /\ conn_ids < MaxSockets
    /\ conn_ids' = conn_ids + 1
    /\ open_conns' = open_conns \cup {conn_ids + 1}
    /\ user_conn' = conn_ids + 1
    /\ forwarder' = IF forwarder.pc = "waiting"
                    THEN [forwarder EXCEPT !.pc = "collect",
                                           !.websocket_sender = conn_ids + 1]
                    ELSE forwarder
    /\ UNCHANGED <<runloop, produced, result_chan, result_rx, test_msgs, torn, notStreamVars>>

\* a socket goes away: the receiving half of its channel is dropped
StreamClose(c) ==
    /\ c \in open_conns
    /\ open_conns' = open_conns \ {c}
    /\ UNCHANGED <<runloop, produced, result_chan, result_rx, forwarder, test_msgs,
                   user_conn, conn_ids, torn, notStreamVars>>

\* the handler of a closed socket ends: its deferred remove takes the user's
\* key out of the registry, whichever socket registered it
StreamRemove(c) ==
    /\ c \in (1..conn_ids) \ (open_conns \cup torn)
    /\ torn' = torn \cup {c}
    /\ user_conn' = 0
    /\ UNCHANGED <<runloop, produced, result_chan, result_rx, forwarder, test_msgs,
                   open_conns, conn_ids, notStreamVars>>

\* handle.wait_next(): a result, an error (todo!() panics the task), or, after
\* the last test, Ok(None) and submission.finish()
RunNext(out, dbok) ==
    /\ runloop.pc = "wait_next"
    /\ IF runloop.next = NumTests
       THEN /\ runloop' = [runloop EXCEPT !.pc = "done",
                               !.row = IF dbok THEN "Finished" ELSE @,
                               !.exit = IF dbok THEN "finished" ELSE "db_error"]
            /\ UNCHANGED produced
       ELSE IF out = "error"
       THEN /\ runloop' = [runloop EXCEPT !.pc = "done", !.exit = "panic"]
            /\ UNCHANGED produced
       ELSE /\ runloop' = [runloop EXCEPT !.pc = "record",
                               !.cur = [index |-> runloop.next, out |-> out]]
            /\ produced' = Append(produced, [index |-> runloop.next, out |-> out])
    /\ UNCHANGED <<result_chan, result_rx, forwarder, test_msgs, user_conn, open_conns,
                   conn_ids, torn, notStreamVars>>

\* create_submission_test_history; on an error submission.fail() and return
RunRecord(dbok) ==
    /\ runloop.pc = "record"
    /\ runloop' = IF dbok THEN [runloop EXCEPT !.pc = "send"]
                  ELSE [runloop EXCEPT !.pc = "done", !.row = "Failed", !.exit = "db_error"]
    /\ UNCHANGED <<produced, result_chan, result_rx, forwarder, test_msgs, user_conn,
                   open_conns, conn_ids, torn, notStreamVars>>

\* result_tx.send(result).await can go on: there is room in the channel, or the
\* receiving half is gone and it returns Err
CanSend == Len(result_chan) < ChannelCapacity \/ ~result_rx

\* let _ = result_tx.send(result).await;
RunSend ==
    /\ runloop.pc = "send"
    /\ CanSend
    /\ result_chan' = IF result_rx THEN Append(result_chan, runloop.cur) ELSE result_chan
    /\ runloop' = [runloop EXCEPT !.pc = "wait_next", !.next = @ + 1, !.cur = NoResult]
    /\ UNCHANGED <<produced, result_rx, forwarder, test_msgs, user_conn, open_conns,
                   conn_ids, torn, notStreamVars>>

\* result_rx.recv().await: the oldest item, or None once the task has dropped
\* result_tx and the channel is empty
ForwardRecv ==
    /\ forwarder.pc = "recv"
    /\ IF result_chan # <<>>
       THEN /\ forwarder' = [forwarder EXCEPT !.pc = "debounce", !.r = Head(result_chan)]
            /\ result_chan' = Tail(result_chan)
            /\ UNCHANGED result_rx
       ELSE /\ runloop.pc = "done"
            /\ forwarder' = [forwarder EXCEPT !.pc = "done", !.exit = "closed"]
            /\ result_rx' = FALSE
            /\ UNCHANGED result_chan
    /\ UNCHANGED <<runloop, produced, test_msgs, user_conn, open_conns, conn_ids,
                   torn, notStreamVars>>

\* the debounce sleep, then wait_for_connection finds the user registered or
\* starts to wait
ForwardWait ==
    /\ forwarder.pc = "debounce"
    /\ forwarder' = IF user_conn # 0
                    THEN [forwarder EXCEPT !.pc = "collect", !.websocket_sender = user_conn]
                    ELSE [forwarder EXCEPT !.pc = "waiting"]
    /\ UNCHANGED <<runloop, produced, result_chan, result_rx, test_msgs, user_conn,
                   open_conns, conn_ids, torn, notStreamVars>>

\* the 5 second timeout of wait_for_connection elapses: the forwarder returns
\* and result_rx is dropped with what it holds
ForwardTimeout ==
    /\ forwarder.pc = "waiting"
    /\ forwarder' = [forwarder EXCEPT !.pc = "done", !.exit = "timeout"]
    /\ result_rx' = FALSE
    /\ result_chan' = <<>>
    /\ UNCHANGED <<runloop, produced, test_msgs, user_conn, open_conns, conn_ids,
                   torn, notStreamVars>>

\* a message that puts the items found by try_recv() before the one received
BatchReversed(r, buffered) == buffered \o <<r>>

\* results.push((&r).into()); while let Ok(ref v) = result_rx.try_recv() { push }
Batch(r, buffered) == <<r>> \o buffered

\* results.push(r), the try_recv() loop, and the send of one TestResults message;
\* when the socket's channel is closed the forwarder returns
ForwardSend ==
    /\ forwarder.pc = "collect"
    /\ result_chan' = <<>>
    /\ IF forwarder.websocket_sender \in open_conns
       THEN /\ test_msgs' = Append(test_msgs, Batch(forwarder.r, result_chan))
            /\ forwarder' = [forwarder EXCEPT !.pc = "recv", !.r = NoResult]
            /\ UNCHANGED result_rx
       ELSE /\ forwarder' = [forwarder EXCEPT !.pc = "done", !.exit = "send_failed"]
            /\ result_rx' = FALSE
            /\ UNCHANGED test_msgs
    /\ UNCHANGED <<runloop, produced, user_conn, open_conns, conn_ids, torn, notStreamVars>>

\* the steps of the task's loop, and those of the forwarder
RunStep ==
    \/ \E out \in TestOutputs \cup {"error"}, dbok \in BOOLEAN : RunNext(out, dbok)
    \/ \E dbok \in BOOLEAN : RunRecord(dbok)
    \/ RunSend
ForwardStep == ForwardRecv \/ ForwardWait \/ ForwardTimeout \/ ForwardSend

NextStream ==
    \/ StreamStart
    \/ StreamConnect
    \/ \E c \in 1..MaxSockets : StreamClose(c)
    \/ \E c \in 1..MaxSockets : StreamRemove(c)
    \/ RunStep
    \/ ForwardStep

SpecStream == Init /\ [][NextStream]_vars

\* tokio runs every spawned task that can go on
SpecStreamFair == SpecStream /\ WF_vars(RunStep) /\ WF_vars(ForwardStep)

\* the results of a sequence of messages, in the order sent
RECURSIVE Concat(_)
Concat(msgs) == IF msgs = <<>> THEN <<>> ELSE Head(msgs) \o Concat(Tail(msgs))

IsPrefix(a, b) == Len(a) <= Len(b) /\ \A i \in 1..Len(a) : a[i] = b[i]

\* what has been sent is, message after message, an initial part of what the
\* runner has produced: nothing twice, nothing out of order, no empty message
StreamedInOrder ==
    /\ IsPrefix(Concat(test_msgs), produced)
    /\ \A i \in 1..Len(test_msgs) : test_msgs[i] # <<>>

\* from the start of the task on the user is registered and no socket of the
\* user has been closed
UserStaysConnected ==
    runloop.pc # "idle" => (user_conn # 0 /\ open_conns = 1..conn_ids)

\* no insert of a test result has failed
ResultsRecorded == runloop.row # "Failed"

\* the k-th produced result has been sent
Streamed(k) == Len(Concat(test_msgs)) >= k

C36_RowsWithinCeiling ==
    max_submissions # 0 =>
        \A u \in Users, p \in Problems :
            count_previous_submissions(submission_history, u, p) <= max_submissions

\* C37: after a reconnect the teardown of the earlier socket leaves the later
\* socket's registration alone: the socket that registered last, while it is
\* open, is the one registered for the user.
C37_OpenStaysRegistered == conn_ids \in open_conns => user_conn = conn_ids

(***************************************************************************)
(* The submissions-state response (services/testing.rs), next to the task  *)
(* of run_tests that writes the rows it counts.                            *)
(***************************************************************************)
\* max_attempts.map(|x| x - a.attempts as u32) for one problem; get_attempts
\* returns a row only for the problems that have submissions
RemainingAttempts(user, p) ==
    LET a == count_previous_submissions(submission_history, user, p)
    IN IF max_submissions = 0 THEN NoAttempts
       ELSE IF a = 0 THEN U32(max_submissions)
       ELSE WrappingSub(max_submissions, a)

\* the subtraction would go below zero
Underflows(user) ==
    /\ max_submissions # 0
    /\ \E p \in Problems :
           count_previous_submissions(submission_history, user, p) > max_submissions

\* get_submissions_state: the three queries, then the states as JSON. A build
\* with overflow checks panics on the subtraction, one without wraps.
GetSubmissionsState(user, dbok, checks) ==
    /\ sub_states' =
           IF ~dbok THEN [NoStates EXCEPT !.exit = "db_error", !.user = user]
           ELSE IF Underflows(user) /\ checks
           THEN [NoStates EXCEPT !.exit = "panic", !.user = user]
           ELSE [exit |-> "ok", user |-> user,
                 remaining |-> [p \in Problems |-> RemainingAttempts(user, p)]]
    /\ UNCHANGED notStateVars

NextTesting ==
    \/ \E t \in Tasks :
           \/ \E who \in Users, p \in ProblemInputs, lang \in Languages :
                  HttpRunTests(t, who, p, lang)
           \/ \E out \in {"CompileFail", "SpawnError", "Compiled"}, dbok \in BOOLEAN :
                  HttpCompiled(t, out, dbok)
           \/ \E r \in TestOutputs \cup {"error"}, dbok \in BOOLEAN, failok \in BOOLEAN :
                  HttpTestResult(t, r, dbok, failok)
           \/ \E dbok \in BOOLEAN : HttpFinish(t, dbok)
    \/ \E user \in Users, dbok \in BOOLEAN, checks \in BOOLEAN :
           GetSubmissionsState(user, dbok, checks)

SpecTesting == Init /\ [][NextTesting]_vars

\* the value x - attempts - 1 of a Submit reply, from the count the handler took
SubmitRemaining(h) == WrappingSub(max_submissions, hs[h].attempts + 1)
InRange(v) == v.some => (v.hi = 0 /\ v.lo <= max_submissions)
\* the handler is past the attempt check, where its replies are built
PastCheck(h) == hs[h].req.kind = "Submit" /\ hs[h].pc # "idle"

\* C38: the remaining-attempts value reported to a client, in a Submit reply
\* and in the submissions-state response, always lies in 0..=max_submissions:
\* the unsigned subtraction never goes below zero, whatever rows exist.
C38_RemainingWithinRange ==
    /\ sub_states.exit # "panic"
    /\ \A p \in Problems : InRange(sub_states.remaining[p])
    /\ \A h \in Handlers :
           (max_submissions # 0 /\ PastCheck(h)) => InRange(SubmitRemaining(h))

(***************************************************************************)
(* The locks of the connection registry (a DashMap): a reference returned  *)
(* by get() holds the shared lock of the key's shard until it is dropped;  *)
(* insert() and remove() need that shard's exclusive lock.                 *)
(***************************************************************************)
\* run_test and run_submission keep `&state.active_connections.get(who)?.send`
\* in a local for the whole call
HoldsRef(u) == lk_pc[u] # "idle"
\* the exclusive lock of c's shard can be taken: nobody holds a reference in it
CanWrite(c) == \A u \in Users : HoldsRef(u) => ShardOf(u) # ShardOf(c)

\* a socket connects: handle_socket inserts its sender under the key
LockConnect(c) ==
    /\ lk_sock[c] = "none"
    /\ CanWrite(c)
    /\ lk_sock' = [lk_sock EXCEPT ![c] = "open"]
    /\ lk_reg' = lk_reg \cup {c}
    /\ UNCHANGED <<lk_pc, lk_remove, lk_n, notLockVars>>

\* a RunTest or Submit arrives on the user's socket: get(who), then the runner
LockHandle(u) ==
    /\ lk_sock[u] = "open"
    /\ lk_pc[u] = "idle"
    /\ lk_n < MaxHandled
    /\ lk_n' = lk_n + 1
    /\ lk_pc' = [lk_pc EXCEPT ![u] = IF u \in lk_reg THEN "running" ELSE "idle"]
    /\ UNCHANGED <<lk_sock, lk_reg, lk_remove, notLockVars>>

\* runner.run() returns and broadcast_team_update calls broadcast: one send
\* per registered connection, the keys of the closed ones collected
LockBroadcast(u) ==
    /\ lk_pc[u] = "running"
    /\ LET to_remove == {c \in lk_reg : lk_sock[c] # "open"}
       IN /\ lk_remove' = [lk_remove EXCEPT ![u] = to_remove]
          /\ lk_pc' = [lk_pc EXCEPT ![u] = IF to_remove = {} THEN "reply" ELSE "pruning"]
    /\ UNCHANGED <<lk_sock, lk_reg, lk_n, notLockVars>>

\* active_connections.remove(x) for a collected key
LockPrune(u, x) ==
    /\ lk_pc[u] = "pruning"
    /\ x \in lk_remove[u]
    /\ CanWrite(x)
    /\ lk_reg' = lk_reg \ {x}
    /\ lk_remove' = [lk_remove EXCEPT ![u] = @ \ {x}]
    /\ lk_pc' = [lk_pc EXCEPT ![u] = IF lk_remove[u] = {x} THEN "reply" ELSE "pruning"]
    /\ UNCHANGED <<lk_sock, lk_n, notLockVars>>

\* the reply is sent and the handler returns: the reference is dropped
LockReturn(u) ==
    /\ lk_pc[u] = "reply"
    /\ lk_pc' = [lk_pc EXCEPT ![u] = "idle"]
    /\ UNCHANGED <<lk_sock, lk_reg, lk_remove, lk_n, notLockVars>>

\* the socket's loop sees the end of the connection between two messages and
\* handle_socket returns: the receiving half of its channel is dropped
LockClose(c) ==
    /\ lk_sock[c] = "open"
    /\ c \in Users => lk_pc[c] = "idle"
    /\ lk_sock' = [lk_sock EXCEPT ![c] = "closed"]
    /\ UNCHANGED <<lk_reg, lk_pc, lk_remove, lk_n, notLockVars>>

\* the deferred active_connections.remove(&who) of a closed socket
LockTeardown(c) ==
    /\ lk_sock[c] = "closed"
    /\ CanWrite(c)
    /\ lk_sock' = [lk_sock EXCEPT ![c] = "gone"]
    /\ lk_reg' = lk_reg \ {c}
    /\ UNCHANGED <<lk_pc, lk_remove, lk_n, notLockVars>>

\* the steps a handler takes by itself once the message is in
HandlerStep(u) ==
    \/ LockBroadcast(u)
    \/ \E x \in LockConns : LockPrune(u, x)
    \/ LockReturn(u)

NextLocks ==
    \/ \E c \in LockConns : LockConnect(c)
    \/ \E u \in Users : LockHandle(u)
    \/ \E u \in Users : HandlerStep(u)
    \/ \E c \in LockConns : LockClose(c)
    \/ \E c \in LockConns : LockTeardown(c)

SpecLocks == Init /\ [][NextLocks]_vars

\* every task is scheduled again and again, and the runner returns
SpecLocksFair ==
    /\ SpecLocks
    /\ \A u \in Users : WF_vars(HandlerStep(u))
    /\ \A c \in LockConns : WF_vars(LockTeardown(c))

\* C39: a broadcast issued while a RunTest or Submit is handled always
\* terminates: neither the pruning of a closed connection nor the registration
\* or removal of another connection waits forever on the entry the handler holds.
C39_BroadcastTerminates ==
    /\ \A u \in Users : (lk_pc[u] \in {"running", "pruning"}) ~> (lk_pc[u] = "idle")
    /\ \A c \in LockConns : (lk_sock[c] = "closed") ~> (lk_sock[c] = "gone")

\* the loop ended without an error of the runner or of the store
LoopUnfailed == runloop.exit \notin {"db_error", "panic"}
\* the loop is at result_tx.send and the send cannot go on
BlockedOnForwarder == runloop.pc = "send" /\ ~CanSend

\* C40: test execution does not depend on the client: the loop that runs and
\* records the tests is never held up by the forwarder (the result channel has
\* room for every test), and unless the runner or the store fails the
\* submission reaches Finished, also when no socket of the user ever connects
\* and the forwarder gives up.
C40_LoopIndependentOfClient ==
    /\ []~BlockedOnForwarder
    /\ []LoopUnfailed => ((runloop.pc # "idle") ~> (runloop.row = "Finished"))

\* every test was run and the row is Finished although nobody ever connected
\* and the forwarder timed out
C40_Witness ==
    /\ runloop.row = "Finished"
    /\ Len(produced) = NumTests
    /\ conn_ids = 0
    /\ forwarder.exit = "timeout"
=============================================================================
